---- MODULE Spec2Model ----
(***************************************************************************)
(* Model of the Nozzarri Tickets bot: per-guild configuration, premium     *)
(* entitlement with license keys, and the ticket lifecycle kept in a       *)
(* channel topic.                                                          *)
(*                                                                         *)
(* Conventions                                                             *)
(*  - A JavaScript property that may be absent is a tuple of length 0 or   *)
(*    1: <<>> is "undefined / key not present", <<v>> is the value v.      *)
(*  - JavaScript null is the value Null.                                   *)
(*  - Timestamps are milliseconds relative to the start of the run.        *)
(*  - Handlers run on a single-threaded event loop.  A handler is split at *)
(*    the awaits after which it reads or writes shared state; awaits that  *)
(*    only send messages are kept in the step they follow.                 *)
(*  - Platform calls succeed unless the channel they address is deleted;   *)
(*    guild.channels.create may be rejected, and the specification of one  *)
(*    closeTicket call lets each of its platform calls be rejected.        *)
(***************************************************************************)
EXTENDS Integers, Sequences, FiniteSets, TLC

Null == "<null>"
Undefined == <<>>
Some(v) == <<v>>
IsDefined(o) == o # <<>>

\* ---------------------------------------------------------------------
\* Bounds of the model
\* ---------------------------------------------------------------------
MaxSaves == 2
MaxCfgTime == 375
MaxPremTime == 4000
MaxPremOps == 3
MaxOps == 2

\* ---------------------------------------------------------------------
\* Identifiers
\* ---------------------------------------------------------------------
Guilds == {"G1", "G2"}

\* Each name stands for a concrete string; IdShape gives what the
\* snowflake regular expression looks at: its length and whether every
\* character is a decimal digit.
IdShape ==
  [ R1  |-> [len |-> 18, digits |-> TRUE],
    R2  |-> [len |-> 18, digits |-> TRUE],
    R3  |-> [len |-> 18, digits |-> TRUE],
    R9  |-> [len |-> 18, digits |-> TRUE],
    C1  |-> [len |-> 18, digits |-> TRUE],
    C2  |-> [len |-> 18, digits |-> TRUE],
    L1  |-> [len |-> 18, digits |-> TRUE],
    bad |-> [len |-> 3,  digits |-> FALSE] ]

isValidSnowflake(id) ==
  /\ id \in DOMAIN IdShape
  /\ IdShape[id].digits
  /\ IdShape[id].len >= 15
  /\ IdShape[id].len <= 25

RECURSIVE FilterSnowflakes(_)
FilterSnowflakes(arr) ==
  IF arr = <<>> THEN <<>>
  ELSE IF isValidSnowflake(Head(arr))
       THEN <<Head(arr)>> \o FilterSnowflakes(Tail(arr))
       ELSE FilterSnowflakes(Tail(arr))

\* normalizeArray receives an optional value: undefined or null is not an
\* array and yields [].
normalizeArray(arrOpt) ==
  IF IsDefined(arrOpt) THEN FilterSnowflakes(arrOpt[1]) ELSE <<>>

\* ---------------------------------------------------------------------
\* Guild configuration
\* ---------------------------------------------------------------------
CfgFields ==
  { "supportCategoryId", "mmCategoryId", "logChannelId",
    "supportEnabled", "tradeEnabled", "logsEnabled",
    "supportRoles", "mmRoles", "adminRoles", "panelText" }

EnabledFields == {"supportEnabled", "tradeEnabled", "logsEnabled"}
RoleFields == {"supportRoles", "mmRoles", "adminRoles"}

EmptyObject == [f \in CfgFields |-> Undefined]

\* {...a, ...b}: own keys of b win over a.
Spread(a, b) == [f \in DOMAIN a |-> IF IsDefined(b[f]) THEN b[f] ELSE a[f]]

\* JavaScript truthiness of an optional identifier: undefined, null and
\* the empty string are falsy.
Truthy(o) == IsDefined(o) /\ o[1] # Null /\ o[1] # ""

DefaultPanelText == [supportDescription |-> Some(Null), tradeDescription |-> Some(Null)]

getDefaultConfig ==
  [ supportCategoryId |-> Some(Null),
    mmCategoryId      |-> Some(Null),
    logChannelId      |-> Some(Null),
    supportEnabled    |-> Some(FALSE),
    tradeEnabled      |-> Some(FALSE),
    logsEnabled       |-> Some(FALSE),
    supportRoles      |-> Some(<<>>),
    mmRoles           |-> Some(<<>>),
    adminRoles        |-> Some(<<>>),
    panelText         |-> Some(DefaultPanelText) ]

\* saved.x ?? def.x for the role lists (a role list is never stored as
\* null: every writer passes an array).
Coalesce(o, d) == IF IsDefined(o) THEN o ELSE d

\* A stored flag wins when its key is present; otherwise the flag is
\* inferred from the identifier it guards.
InferEnabled(flagOpt, idOpt) ==
  IF IsDefined(flagOpt) THEN flagOpt[1] ELSE Truthy(idOpt)

getGuildConfigOf(saved) ==
  LET def == getDefaultConfig
      merged == Spread(def, saved)
      savedPanel == IF IsDefined(saved.panelText)
                    THEN saved.panelText[1]
                    ELSE [supportDescription |-> Undefined, tradeDescription |-> Undefined]
  IN [ merged EXCEPT
         !.supportEnabled = Some(InferEnabled(saved.supportEnabled, saved.supportCategoryId)),
         !.tradeEnabled   = Some(InferEnabled(saved.tradeEnabled, saved.mmCategoryId)),
         !.logsEnabled    = Some(InferEnabled(saved.logsEnabled, saved.logChannelId)),
         !.panelText      = Some(Spread(DefaultPanelText, savedPanel)),
         !.supportRoles   = Some(normalizeArray(Coalesce(saved.supportRoles, def.supportRoles))),
         !.mmRoles        = Some(normalizeArray(Coalesce(saved.mmRoles, def.mmRoles))),
         !.adminRoles     = Some(normalizeArray(Coalesce(saved.adminRoles, def.adminRoles))) ]

\* The record saveGuildConfig stores for a guild whose stored record is
\* `saved`: the value READ through getGuildConfig, overlaid with the patch.
NextStoredConfig(saved, patch) ==
  LET current == getGuildConfigOf(saved)
      next == Spread(current, patch)
  IN [ f \in CfgFields |->
         IF f \in RoleFields /\ IsDefined(patch[f])
         THEN Some(normalizeArray(patch[f]))
         ELSE next[f] ]

\* ---------------------------------------------------------------------
\* State
\* ---------------------------------------------------------------------
VARIABLES
  now,               \* Date.now()
  GUILD_CONFIGS,     \* in-memory guildConfigs document
  cfgSaveTimer,      \* _cfgSaveTimer: Undefined or Some(due time)
  cfgDirty,          \* _cfgDirty
  cfgWrites,         \* writeJsonSafeAsync calls in flight
  cfgTmp,            \* content of guildConfigs.json.tmp
  diskGuildConfigs,  \* content of guildConfigs.json
  DISK_FULL,
  store,             \* condition of the file system: "ok", "ENOSPC" or "EIO"
  cfgBase,           \* history: the stored record of each guild at start
  cfgHist,           \* history: the patches saved for each guild, in order
  cfgLog,            \* history: saveGuildConfig calls and write starts, with times
  PREMIUM_GUILDS,    \* in-memory premiumGuilds document
  PREMIUM_KEYS,      \* in-memory premiumKeys document
  diskPremiumGuilds, \* content of premiumGuilds.json
  diskPremiumKeys,   \* content of premiumKeys.json
  REQUIRE_PREMIUM,   \* DASHBOARD_REQUIRE_PREMIUM
  premOp,            \* history: the last premium handler call and its reply
  channel,           \* the ticket channel on the platform
  creation,          \* the modal_support / modal_trade handler
  reqs,              \* the requests made inside the ticket channel
  events,            \* history: what the bot sent to the platform, in order
  timers,            \* pending setTimeout callbacks of the ticket
  REVIEWS,           \* in-memory reviews document (the rating ledger)
  RATED,             \* in-memory rated document: the keys already rated
  diskReviews,       \* content of reviews.json
  diskRated,         \* content of rated.json
  rateLog,           \* history: the rate: interactions and their outcome
  panels             \* the members whose ?setup panel message is on the platform

cfgVars == <<GUILD_CONFIGS, cfgSaveTimer, cfgDirty, cfgWrites, cfgTmp,
             diskGuildConfigs, DISK_FULL, cfgBase, cfgHist, cfgLog>>

premVars == <<PREMIUM_GUILDS, PREMIUM_KEYS, diskPremiumGuilds, diskPremiumKeys,
              REQUIRE_PREMIUM, premOp>>

ratingVars == <<REVIEWS, RATED, diskReviews, diskRated, rateLog>>

ticketVars == <<channel, creation, reqs, events, timers, ratingVars, panels>>

vars == <<now, store, cfgVars, premVars, ticketVars>>

NoChannel ==
  [exists |-> FALSE, parentId |-> Null, topic |-> <<>>, name |-> <<>>, overwrites |-> <<>>]

NoCreation ==
  [ pc |-> "idle", user |-> "none", type |-> "none", cfg |-> getDefaultConfig,
    reply |-> "none", enabledAtSubmit |-> TRUE, enabledAtCheck |-> TRUE ]

\* No ticket activity: the ticket state of the specifications that do not
\* exercise it.
\* The staff members a ticket can be claimed by.
RatedStaff == {"S1", "S2"}

\* readJsonSafe(REVIEWS_FILE, { trade: {}, service: {} }) and
\* readJsonSafe(RATED_FILE, {}) with no file on disk.
NoReviews == [trade |-> [st \in RatedStaff |-> <<>>], service |-> <<>>]

RatingIdle ==
  /\ REVIEWS = NoReviews
  /\ RATED = {}
  /\ diskReviews = REVIEWS
  /\ diskRated = RATED
  /\ rateLog = <<>>

TicketIdle ==
  /\ channel = NoChannel
  /\ creation = NoCreation
  /\ reqs = <<>>
  /\ events = <<>>
  /\ timers = {}
  /\ RatingIdle
  /\ panels = {}

getGuildConfig(guildId) == getGuildConfigOf(GUILD_CONFIGS[guildId])

\* ---------------------------------------------------------------------
\* Debounced configuration persistence
\* ---------------------------------------------------------------------
DebounceMs == 250

\* A timer may fire once its due time is reached, and time does not move
\* past a due timer before it has fired.
TimerDue(t) == IsDefined(t) /\ t[1] <= now

\* A save without debounce: the write is due at once.
scheduleConfigSaveAtOnce ==
  /\ cfgDirty' = TRUE
  /\ cfgSaveTimer' = Some(now)

\* scheduleConfigSave(): mark dirty and (re)arm the single timer.
scheduleConfigSave ==
  /\ cfgDirty' = TRUE
  /\ cfgSaveTimer' = Some(now + DebounceMs)

\* saveGuildConfig(guildId, patch)
saveGuildConfig(guildId, patch) ==
  /\ GUILD_CONFIGS' = [GUILD_CONFIGS EXCEPT ![guildId] = NextStoredConfig(@, patch)]
  /\ scheduleConfigSave
  /\ cfgHist' = [cfgHist EXCEPT ![guildId] = Append(@, patch)]
  /\ cfgLog' = Append(cfgLog, [ev |-> "save", at |-> now, snap |-> GUILD_CONFIGS'])
  /\ UNCHANGED <<cfgWrites, cfgTmp, diskGuildConfigs, DISK_FULL, cfgBase>>

CfgOnly == UNCHANGED <<premVars, ticketVars>>

P1(f, v) == [EmptyObject EXCEPT ![f] = Some(v)]

\* Patches as the setup panel and the callers of saveGuildConfig build them.
CfgPatches ==
  { P1("supportCategoryId", "C1"),
    P1("mmCategoryId", "C2"),
    P1("logChannelId", "L1"),
    P1("supportRoles", <<"R1">>),
    P1("mmRoles", <<"R2", "bad">>),
    P1("adminRoles", <<"R3", "R3">>),
    P1("supportEnabled", TRUE),
    P1("tradeEnabled", FALSE),
    P1("panelText", [supportDescription |-> Some("text"), tradeDescription |-> Some(Null)]),
    [EmptyObject EXCEPT !.supportCategoryId = Some(Null), !.supportRoles = Some(<<"R1">>)] }

SavesDone == Len(cfgHist["G1"]) + Len(cfgHist["G2"])

\* A caller saves a patch (setup_pick_*, setup_pick_roles, panel text).
SaveGuildConfig(g, patch) ==
  /\ CfgOnly
  /\ UNCHANGED store
  /\ SavesDone < MaxSaves
  /\ saveGuildConfig(g, patch)
  /\ UNCHANGED now

\* setup_toggle_support / setup_toggle_trade / setup_toggle_logs
SetupToggle(g, flag) ==
  /\ CfgOnly
  /\ UNCHANGED store
  /\ SavesDone < MaxSaves
  /\ saveGuildConfig(g, P1(flag, ~ getGuildConfig(g)[flag][1]))
  /\ UNCHANGED now

\* The setTimeout callback of scheduleConfigSave.
CfgSaveTimerFire ==
  /\ CfgOnly
  /\ UNCHANGED store
  /\ TimerDue(cfgSaveTimer)
  /\ cfgSaveTimer' = Undefined
  /\ IF ~ cfgDirty
     THEN UNCHANGED <<cfgDirty, cfgWrites, cfgLog>>
     ELSE /\ cfgDirty' = FALSE
          /\ IF DISK_FULL
             THEN UNCHANGED <<cfgWrites, cfgLog>>
             ELSE /\ cfgWrites' = Append(cfgWrites, [snap |-> GUILD_CONFIGS, stage |-> "writeFile"])
                  /\ cfgLog' = Append(cfgLog, [ev |-> "write", at |-> now, snap |-> GUILD_CONFIGS])
  /\ UNCHANGED <<now, GUILD_CONFIGS, cfgTmp, diskGuildConfigs, DISK_FULL, cfgBase, cfgHist>>

WriteOutcomes == {"ok", "ENOSPC", "EIO"}

\* The file system gets full, breaks or recovers.
StoreChanges(c) ==
  /\ c # store
  /\ store' = c
  /\ UNCHANGED <<now, cfgVars, premVars, ticketVars>>

RemoveAt(s, i) == SubSeq(s, 1, i - 1) \o SubSeq(s, i + 1, Len(s))

\* writeJsonSafeAsync: fs.promises.writeFile(tmp, ...) settles.
CfgWriteFileDone(i) ==
  /\ CfgOnly
  /\ UNCHANGED store
  /\ i \in 1..Len(cfgWrites)
  /\ cfgWrites[i].stage = "writeFile"
  /\ IF store = "ok"
     THEN /\ cfgTmp' = Some(cfgWrites[i].snap)
          /\ cfgWrites' = [cfgWrites EXCEPT ![i].stage = "rename"]
          /\ UNCHANGED DISK_FULL
     ELSE /\ DISK_FULL' = IF store = "ENOSPC" THEN TRUE ELSE DISK_FULL
          /\ cfgTmp' = Undefined
          /\ cfgWrites' = RemoveAt(cfgWrites, i)
  /\ UNCHANGED <<now, GUILD_CONFIGS, cfgSaveTimer, cfgDirty, diskGuildConfigs, cfgBase, cfgHist, cfgLog>>

\* writeJsonSafeAsync: fs.promises.rename(tmp, file) settles.  The rename
\* fails when the temporary file is gone.
RenameSettles(i) ==
  /\ CfgOnly
  /\ UNCHANGED store
  /\ i \in 1..Len(cfgWrites)
  /\ cfgWrites[i].stage = "rename"
  /\ IF store = "ok" /\ IsDefined(cfgTmp)
     THEN /\ diskGuildConfigs' = cfgTmp[1]
          /\ DISK_FULL' = FALSE
     ELSE /\ DISK_FULL' = IF store = "ENOSPC" THEN TRUE ELSE DISK_FULL
          /\ UNCHANGED diskGuildConfigs
  /\ cfgTmp' = Undefined
  /\ cfgWrites' = RemoveAt(cfgWrites, i)
  /\ UNCHANGED <<now, GUILD_CONFIGS, cfgSaveTimer, cfgDirty, cfgBase, cfgHist>>

CfgRenameDone(i) == RenameSettles(i) /\ UNCHANGED cfgLog

\* The same step with the history keeping the failures (the catch block
\* of writeJsonSafeAsync).
CfgRenameLogged(i) ==
  /\ RenameSettles(i)
  /\ cfgLog' = IF store = "ok" /\ IsDefined(cfgTmp) THEN cfgLog
               ELSE Append(cfgLog, [ev |-> "failed", at |-> now, snap |-> cfgWrites[i].snap])

\* Time passes until the pending config-save timer is due.
CfgTimerWait ==
  /\ CfgOnly
  /\ UNCHANGED store
  /\ IsDefined(cfgSaveTimer)
  /\ ~ TimerDue(cfgSaveTimer)
  /\ now' = cfgSaveTimer[1]
  /\ UNCHANGED cfgVars

CfgTickSteps == {125}

CfgTick(d) ==
  /\ CfgOnly
  /\ UNCHANGED store
  /\ now + d <= MaxCfgTime
  /\ ~ TimerDue(cfgSaveTimer)
  /\ now' = now + d
  /\ UNCHANGED cfgVars

\* ---------------------------------------------------------------------
\* Synchronous crash-safe write (writeJsonSafe)
\* ---------------------------------------------------------------------
\* The document on disk after writeJsonSafe(file, data): the rename
\* replaces the file only when both steps succeed.
DiskAfterWrite(disk, data) == IF store = "ok" THEN data ELSE disk

\* DISK_FULL after writeJsonSafe.
DiskFullAfterWrite(full) ==
  IF store = "ok" THEN FALSE
  ELSE IF store = "ENOSPC" THEN TRUE
  ELSE full

\* ---------------------------------------------------------------------
\* Premium entitlement
\* ---------------------------------------------------------------------
\* new Date(ms).toISOString() and Date.parse(iso): the text form of an
\* instant, and the instant of a text form.
ToISOString(ms) == [iso |-> ms]
DateParse(str) == str.iso

BrandKeys == {"name", "iconUrl", "accent"}
FeatureKeys == {"autoTagClaims", "transcripts", "autoCloseMinutes", "ticketPings"}

NoBranding == [k \in BrandKeys |-> Undefined]
NoFeatures == [k \in FeatureKeys |-> Undefined]

\* PREMIUM_GUILDS[guildId] || {}
NoPremium ==
  [ isPremium |-> Undefined, plan |-> Undefined, activatedAt |-> Undefined,
    expiresAt |-> Undefined, branding |-> Undefined, features |-> Undefined ]

IsTrue(o) == IsDefined(o) /\ o[1] = TRUE

ExpiresNowNever(s, t) == FALSE

\* ensurePremiumActiveOrExpire: whether the stored state is demoted now.
ExpiresNow(s, t) ==
  /\ IsTrue(s.isPremium)
  /\ IsDefined(s.expiresAt)
  /\ t > DateParse(s.expiresAt[1])

\* PREMIUM_GUILDS after ensurePremiumActiveOrExpire(guildId) at time t.
ensurePremiumActiveOrExpire(pg, guildId, t) ==
  IF ExpiresNow(pg[guildId], t)
  THEN [pg EXCEPT ![guildId].isPremium = Some(FALSE)]
  ELSE pg

OrNull(o) == IF IsDefined(o) THEN o[1] ELSE Null

DefaultBrandName == "Nozzarri Tickets"

\* The object getPremiumState returns for a stored record (after the
\* expiry check has been applied to it).
PremiumView(raw) ==
  LET branding == IF IsDefined(raw.branding) THEN raw.branding[1] ELSE NoBranding
      features == IF IsDefined(raw.features) THEN raw.features[1] ELSE NoFeatures
  IN [ isPremium   |-> IsTrue(raw.isPremium),
       plan        |-> OrNull(raw.plan),
       activatedAt |-> raw.activatedAt,
       expiresAt   |-> raw.expiresAt,
       branding    |-> [ name    |-> IF Truthy(branding.name) THEN branding.name[1] ELSE DefaultBrandName,
                         iconUrl |-> OrNull(branding.iconUrl),
                         accent  |-> OrNull(branding.accent) ],
       features    |-> [ autoTagClaims    |-> IsTrue(features.autoTagClaims),
                         transcripts      |-> IsTrue(features.transcripts),
                         autoCloseMinutes |-> IF IsDefined(features.autoCloseMinutes)
                                              THEN features.autoCloseMinutes[1] ELSE 0 ] ]

\* The record savePremiumState stores: top-level spread, branding and
\* features merged key by key, isPremium forced to a boolean.
NextPremiumRaw(raw, patch) ==
  LET top == Spread(raw, patch)
      rb == IF IsDefined(raw.branding) THEN raw.branding[1] ELSE NoBranding
      pb == IF IsDefined(patch.branding) THEN patch.branding[1] ELSE NoBranding
      rf == IF IsDefined(raw.features) THEN raw.features[1] ELSE NoFeatures
      pf == IF IsDefined(patch.features) THEN patch.features[1] ELSE NoFeatures
  IN [ top EXCEPT
         !.branding = Some(Spread(rb, pb)),
         !.features = Some(Spread(rf, pf)),
         !.isPremium = IF IsDefined(top.isPremium) THEN top.isPremium
                       ELSE Some(IsTrue(raw.isPremium)) ]

\* getPremiumState(guildId) called at time `now` on the documents (pg,
\* disk, full).  Yields the new documents and the returned object.
GetPremiumState(pg, disk, full, guildId) ==
  LET demote == ExpiresNow(pg[guildId], now)
      pg2 == ensurePremiumActiveOrExpire(pg, guildId, now)
  IN [ pg   |-> pg2,
       disk |-> IF demote THEN DiskAfterWrite(disk, pg2) ELSE disk,
       full |-> IF demote THEN DiskFullAfterWrite(full) ELSE full,
       view |-> PremiumView(pg2[guildId]) ]

\* savePremiumState(guildId, patch): store, write, then read back through
\* getPremiumState.
SavePremiumState(pg, disk, full, guildId, patch) ==
  LET pg1 == [pg EXCEPT ![guildId] = NextPremiumRaw(@, patch)]
      disk1 == DiskAfterWrite(disk, pg1)
      full1 == DiskFullAfterWrite(full)
  IN GetPremiumState(pg1, disk1, full1, guildId)

\* Effect of a handler on the premium documents, from a result of
\* GetPremiumState / SavePremiumState.
PremiumBecomes(r) ==
  /\ PREMIUM_GUILDS' = r.pg
  /\ diskPremiumGuilds' = r.disk
  /\ DISK_FULL' = r.full

PremOpsDone == premOp.n

PremFrame ==
  UNCHANGED <<now, store, GUILD_CONFIGS, cfgSaveTimer, cfgDirty, cfgWrites, cfgTmp,
              diskGuildConfigs, cfgBase, cfgHist, cfgLog, ticketVars>>

Logged(op, g, key, reply, stale) ==
  premOp' = [n |-> premOp.n + 1, op |-> op, guild |-> g, key |-> key,
             reply |-> reply, stale |-> stale, owner |-> TRUE]

LoggedRedeem(g, key, reply, isOwner) ==
  premOp' = [n |-> premOp.n + 1, op |-> "redeem", guild |-> g, key |-> key,
             reply |-> reply, stale |-> FALSE, owner |-> isOwner]

\* Whether the stored expiry of a guild has passed.
ExpiryPassed(g) ==
  /\ IsDefined(PREMIUM_GUILDS[g].expiresAt)
  /\ DateParse(PREMIUM_GUILDS[g].expiresAt[1]) < now

\* ---------------------------------------------------------------------
\* License keys
\* ---------------------------------------------------------------------
KeyNames == {"K1", "K2", "KX"}
GenKeys == {"K1", "K2"}

DayMs == 86400000
DefaultKeyDays == 30

\* Results of parseDurationToMs for "1s" and "2s".
GenDurations ==
  { [ms |-> 1000, plan |-> "custom", days |-> 1],
    [ms |-> 2000, plan |-> "custom", days |-> 1] }

\* A command argument is a sequence of characters.  The arguments below
\* are lower-case already, so toLowerCase() leaves them as they are.
DigitValue ==
  [c \in {"0", "1", "2", "3", "4", "5", "6", "7", "8", "9"} |->
     CASE c = "0" -> 0 [] c = "1" -> 1 [] c = "2" -> 2 [] c = "3" -> 3
       [] c = "4" -> 4 [] c = "5" -> 5 [] c = "6" -> 6 [] c = "7" -> 7
       [] c = "8" -> 8 [] c = "9" -> 9]

IsDigit(c) == c \in DOMAIN DigitValue

\* \s of the regular expression
IsSpace(c) == c = " "

\* \w of the regular expression, over the characters of the arguments
IsWordChar(c) == ~ IsSpace(c) /\ c \notin {"-", ".", ",", ":"}

RECURSIVE DecimalValue(_)
DecimalValue(s) ==
  IF s = <<>> THEN 0
  ELSE DecimalValue(SubSeq(s, 1, Len(s) - 1)) * 10 + DigitValue[s[Len(s)]]

\* The first position from i on that is not matched by the class.
RECURSIVE SkipDigits(_, _)
SkipDigits(raw, i) ==
  IF i <= Len(raw) /\ IsDigit(raw[i]) THEN SkipDigits(raw, i + 1) ELSE i

\* Number(p) for a trimmed argument made of digits, letters and blanks:
\* Undefined stands for NaN.
NumberOf(p) ==
  LET negative == p # <<>> /\ p[1] = "-"
      digits == IF negative THEN Tail(p) ELSE p
  IN IF digits # <<>> /\ \A i \in 1..Len(digits) : IsDigit(digits[i])
     THEN Some(IF negative THEN 0 - DecimalValue(digits) ELSE DecimalValue(digits))
     ELSE Undefined

\* parseInt(raw, 10) for a trimmed text: an optional sign and the digits
\* that follow it, whatever comes after them; Undefined stands for NaN.
parseInt10(raw) ==
  LET negative == raw # <<>> /\ raw[1] = "-"
      from == IF negative THEN 2 ELSE 1
      to == SkipDigits(raw, from)
  IN IF to > from
     THEN Some(IF negative THEN 0 - DecimalValue(SubSeq(raw, from, to - 1))
               ELSE DecimalValue(SubSeq(raw, from, to - 1)))
     ELSE Undefined

planToDays(p) ==
  IF p \in {<<"1","5","d">>, <<"1","5","d","a","y","s">>, <<"1","5">>}
    THEN Some([plan |-> "15d", days |-> 15])
  ELSE IF p \in {<<"1","m">>, <<"1","m","o","n","t","h">>, <<"3","0","d">>, <<"3","0">>}
    THEN Some([plan |-> "1m", days |-> 30])
  ELSE IF p \in {<<"3","m">>, <<"3","m","o","n","t","h">>, <<"9","0","d">>, <<"9","0">>}
    THEN Some([plan |-> "3m", days |-> 90])
  ELSE IF IsDefined(NumberOf(p)) /\ NumberOf(p)[1] > 0 /\ NumberOf(p)[1] <= 3650
    THEN Some([plan |-> "custom", days |-> NumberOf(p)[1]])
  ELSE Undefined

\* The alternatives (mo|y|w|d|h|m|s) in the order the expression tries them.
DurationUnits == << <<"m","o">>, <<"y">>, <<"w">>, <<"d">>, <<"h">>, <<"m">>, <<"s">> >>

\* The length of each unit in seconds; every case of the switch adds a
\* whole number of seconds, so the sum is kept in seconds.
UnitSeconds(unit) ==
  CASE unit = <<"s">> -> 1
    [] unit = <<"m">> -> 60
    [] unit = <<"h">> -> 60 * 60
    [] unit = <<"d">> -> 24 * 60 * 60
    [] unit = <<"w">> -> 7 * 24 * 60 * 60
    [] unit = <<"m","o">> -> 30 * 24 * 60 * 60
    [] unit = <<"y">> -> 365 * 24 * 60 * 60

\* The first position from i on that is not a blank.
RECURSIVE SkipSpaces(_, _)
SkipSpaces(raw, i) ==
  IF i <= Len(raw) /\ IsSpace(raw[i]) THEN SkipSpaces(raw, i + 1) ELSE i

\* unit\b at position k: the unit is there and is followed by the end of
\* the text or by a character that is not a word character.
UnitAt(raw, k, unit) ==
  /\ k + Len(unit) - 1 <= Len(raw)
  /\ SubSeq(raw, k, k + Len(unit) - 1) = unit
  /\ (k + Len(unit) <= Len(raw) => ~ IsWordChar(raw[k + Len(unit)]))

\* One attempt of /([0-9]+)\s*(mo|y|w|d|h|m|s)\b/ at position i: Undefined
\* or the number, the unit and the position after the match.
MatchAt(raw, i) ==
  LET j == SkipDigits(raw, i)
      k == SkipSpaces(raw, j)
      found == {u \in 1..Len(DurationUnits) : UnitAt(raw, k, DurationUnits[u])}
      first == CHOOSE u \in found : \A v \in found : u <= v
  IN IF j > i /\ found # {}
     THEN Some([n |-> DecimalValue(SubSeq(raw, i, j - 1)),
                unit |-> DurationUnits[first],
                end |-> k + Len(DurationUnits[first])])
     ELSE Undefined

\* The while loop over re.exec(raw): the matches from position i on.
RECURSIVE ExecAll(_, _, _)
ExecAll(raw, i, acc) ==
  IF i > Len(raw) THEN acc
  ELSE IF IsDefined(MatchAt(raw, i))
    THEN LET mt == MatchAt(raw, i)[1]
         IN ExecAll(raw, mt.end,
                    [used |-> TRUE,
                     totalSec |-> acc.totalSec
                                    + (IF mt.n > 0 THEN mt.n * UnitSeconds(mt.unit) ELSE 0)])
    ELSE ExecAll(raw, i + 1, acc)

\* maxMs, in seconds
MaxDurationSeconds == 10 * 365 * 24 * 60 * 60

CeilDiv(a, b) == (a + b - 1) \div b

\* parseDurationToMs(raw) for a trimmed, non-empty argument: Undefined
\* stands for null.  The arguments of the model stay under 2^31 ms.
parseDurationToMs(raw) ==
  IF IsDefined(planToDays(raw))
  THEN Some([ms |-> planToDays(raw)[1].days * DayMs,
             plan |-> planToDays(raw)[1].plan,
             days |-> planToDays(raw)[1].days])
  ELSE LET sum == ExecAll(raw, 1, [used |-> FALSE, totalSec |-> 0])
           sec == IF sum.totalSec > MaxDurationSeconds THEN MaxDurationSeconds
                  ELSE sum.totalSec
       IN IF ~ sum.used \/ sum.totalSec <= 0 THEN Undefined
          ELSE Some([ms |-> sec * 1000, plan |-> "custom",
                     days |-> IF CeilDiv(sec * 1000, DayMs) > 1
                              THEN CeilDiv(sec * 1000, DayMs) ELSE 1])

\* The record ?premium-gen stores for a new key (null fields are absent).
NewKey(dur) ==
  [ plan |-> dur.plan, durationMs |-> Some(dur.ms), durationDays |-> Some(dur.days),
    used |-> FALSE, usedByGuildId |-> Undefined, usedAt |-> Undefined ]

KeyIsUsedNever(k) == FALSE

\* if (k.used) of ?premium-redeem
KeyIsUsed(k) == k.used

\* addMs of ?premium-redeem
KeyAddMs(k) ==
  IF IsDefined(k.durationMs) THEN k.durationMs[1]
  ELSE (IF IsDefined(k.durationDays) THEN k.durationDays[1] ELSE DefaultKeyDays) * DayMs

RedeemBaseAlwaysNow(current) == now

\* base of ?premium-redeem: the stored expiry when it lies in the future.
RedeemBase(current) ==
  IF IsDefined(current.expiresAt) /\ DateParse(current.expiresAt[1]) > now
  THEN DateParse(current.expiresAt[1])
  ELSE now

\* The patch ?premium-redeem passes to savePremiumState.
RedeemPatch(current, k) ==
  [ NoPremium EXCEPT
      !.isPremium = Some(TRUE),
      !.plan = Some(k.plan),
      !.activatedAt = IF IsDefined(current.activatedAt) THEN current.activatedAt
                      ELSE Some(ToISOString(now)),
      !.expiresAt = Some(ToISOString(RedeemBase(current) + KeyAddMs(k))) ]

\* ?premium-gen <duration>: makeLicenseKey() draws a key that is not in
\* the document yet.
PremiumGen(key, dur) ==
  /\ premOp.n < MaxPremOps
  /\ ~ IsDefined(PREMIUM_KEYS[key])
  /\ PREMIUM_KEYS' = [PREMIUM_KEYS EXCEPT ![key] = Some(NewKey(dur))]
  /\ diskPremiumKeys' = DiskAfterWrite(diskPremiumKeys, PREMIUM_KEYS')
  /\ DISK_FULL' = DiskFullAfterWrite(DISK_FULL)
  /\ Logged("gen", "G1", key, "generated", FALSE)
  /\ UNCHANGED <<PREMIUM_GUILDS, diskPremiumGuilds, REQUIRE_PREMIUM>>
  /\ PremFrame

\* Arguments of ?premium-gen: "2d12h", "2d", "12h", "1h30m", "30s", "1w",
\* "15d", "3", "0h" and "h".
DurationArgs ==
  { <<"2","d","1","2","h">>, <<"2","d">>, <<"1","2","h">>,
    <<"1","h","3","0","m">>, <<"3","0","s">>, <<"1","w">>,
    <<"1","5","d">>, <<"3">>, <<"0","h">>, <<"h">> }

\* ?premium-gen <planArg> by the bot owner: the duration is parsed from
\* the argument, and an argument that does not parse is refused.
PremiumGenArg(key, planArg) ==
  IF IsDefined(parseDurationToMs(planArg))
  THEN PremiumGen(key, parseDurationToMs(planArg)[1])
  ELSE /\ premOp.n < MaxPremOps
       /\ Logged("gen", "G1", Null, "invalid duration", FALSE)
       /\ UNCHANGED <<PREMIUM_GUILDS, PREMIUM_KEYS, diskPremiumGuilds, diskPremiumKeys,
                      DISK_FULL, REQUIRE_PREMIUM>>
       /\ PremFrame

\* ?premium-redeem <key> sent in guild g; isOwner: the author is the
\* guild owner.
PremiumRedeem(g, key, isOwner) ==
  /\ premOp.n < MaxPremOps
  /\ UNCHANGED REQUIRE_PREMIUM
  /\ PremFrame
  /\ IF ~ isOwner
     THEN /\ LoggedRedeem(g, key, "owner_only", isOwner)
          /\ UNCHANGED <<PREMIUM_GUILDS, PREMIUM_KEYS, diskPremiumGuilds, diskPremiumKeys, DISK_FULL>>
     ELSE IF ~ IsDefined(PREMIUM_KEYS[key])
     THEN /\ LoggedRedeem(g, key, "invalid_key", isOwner)
          /\ UNCHANGED <<PREMIUM_GUILDS, PREMIUM_KEYS, diskPremiumGuilds, diskPremiumKeys, DISK_FULL>>
     ELSE IF KeyIsUsed(PREMIUM_KEYS[key][1])
     THEN /\ LoggedRedeem(g, key, "already_used", isOwner)
          /\ UNCHANGED <<PREMIUM_GUILDS, PREMIUM_KEYS, diskPremiumGuilds, diskPremiumKeys, DISK_FULL>>
     ELSE LET k == PREMIUM_KEYS[key][1]
              keys2 == [PREMIUM_KEYS EXCEPT ![key] =
                          Some([k EXCEPT !.used = TRUE,
                                         !.usedByGuildId = Some(g),
                                         !.usedAt = Some(ToISOString(now))])]
              full1 == DiskFullAfterWrite(DISK_FULL)
              r == SavePremiumState(PREMIUM_GUILDS, diskPremiumGuilds, full1, g,
                                    RedeemPatch(PREMIUM_GUILDS[g], k))
          IN /\ PREMIUM_KEYS' = keys2
             /\ diskPremiumKeys' = DiskAfterWrite(diskPremiumKeys, keys2)
             /\ PremiumBecomes(r)
             /\ LoggedRedeem(g, key, "activated", isOwner)

\* ?premium-help by the guild owner: reads the state through getPremiumState.
PremiumHelp(g) ==
  /\ premOp.n < MaxPremOps
  /\ LET r == GetPremiumState(PREMIUM_GUILDS, diskPremiumGuilds, DISK_FULL, g)
     IN /\ PremiumBecomes(r)
        /\ Logged("help", g, "none", IF r.view.isPremium THEN "premium" ELSE "not_premium",
                  ExpiryPassed(g))
  /\ UNCHANGED <<PREMIUM_KEYS, diskPremiumKeys, REQUIRE_PREMIUM>>
  /\ PremFrame

\* A premium-gated handler: read through getPremiumState, refuse when not
\* premium, otherwise savePremiumState(patch built from the view).
GatedSave(op, g, PatchOf(_)) ==
  /\ premOp.n < MaxPremOps
  /\ LET r == GetPremiumState(PREMIUM_GUILDS, diskPremiumGuilds, DISK_FULL, g)
     IN IF ~ r.view.isPremium
        THEN /\ PremiumBecomes(r)
             /\ Logged(op, g, "none", "not_premium", ExpiryPassed(g))
        ELSE /\ PremiumBecomes(SavePremiumState(r.pg, r.disk, r.full, g,
                                                PatchOf(r.view)))
             /\ Logged(op, g, "none", "saved", ExpiryPassed(g))
  /\ UNCHANGED <<PREMIUM_KEYS, diskPremiumKeys, REQUIRE_PREMIUM>>
  /\ PremFrame

BrandNames == {"Ticket King"}

\* ?brandname <name> by the guild owner.
BrandName(g, name) ==
  LET PatchOf(view) ==
        [NoPremium EXCEPT !.branding = Some([NoBranding EXCEPT !.name = Some(name)])]
  IN GatedSave("brandname", g, PatchOf)

\* premcmd_toggle_claim button.
PremToggleClaim(g) ==
  LET PatchOf(view) ==
        [NoPremium EXCEPT !.features =
           Some([NoFeatures EXCEPT !.autoTagClaims = Some(~ view.features.autoTagClaims)])]
  IN GatedSave("toggle_claim", g, PatchOf)

\* normalizeMinutes(n) for an integer n
normalizeMinutes(n) == IF n < 0 THEN 0 ELSE IF n > 1440 THEN 1440 ELSE n

\* normalizeMinutes(raw) for a text: Number(raw) first, NaN giving 0.
normalizeMinutesText(raw) ==
  IF IsDefined(NumberOf(raw)) THEN normalizeMinutes(NumberOf(raw)[1]) ELSE 0

\* Texts sent as minutes: "off", "0", "30", "1440", "1441", "5000", "-5",
\* "12x" and "x".
MinuteTexts ==
  { <<"o","f","f">>, <<"0">>, <<"3","0">>, <<"1","4","4","0">>, <<"1","4","4","1">>,
    <<"5","0","0","0">>, <<"-","5">>, <<"1","2","x">>, <<"x">> }

AutoClosePatch(mins) ==
  [NoPremium EXCEPT !.features = Some([NoFeatures EXCEPT !.autoCloseMinutes = Some(mins)])]

\* ?autoclose <raw> by the guild owner.
AutoClose(g, raw) ==
  /\ premOp.n < MaxPremOps
  /\ LET r == GetPremiumState(PREMIUM_GUILDS, diskPremiumGuilds, DISK_FULL, g)
         mins == normalizeMinutesText(raw)
     IN IF ~ r.view.isPremium
        THEN /\ PremiumBecomes(r)
             /\ Logged("autoclose", g, "none", "not_premium", ExpiryPassed(g))
        ELSE IF raw = <<"o","f","f">>
        THEN /\ PremiumBecomes(SavePremiumState(r.pg, r.disk, r.full, g, AutoClosePatch(0)))
             /\ Logged("autoclose", g, "none", "disabled", ExpiryPassed(g))
        ELSE IF mins <= 0
        THEN /\ PremiumBecomes(r)
             /\ Logged("autoclose", g, "none", "usage", ExpiryPassed(g))
        ELSE /\ PremiumBecomes(SavePremiumState(r.pg, r.disk, r.full, g, AutoClosePatch(mins)))
             /\ Logged("autoclose", g, "none", "saved", ExpiryPassed(g))
  /\ UNCHANGED <<PREMIUM_KEYS, diskPremiumKeys, REQUIRE_PREMIUM>>
  /\ PremFrame

\* The minutes the auto-close modal stores for its text field.
ModalMinutes(raw) ==
  LET minutes == IF raw = <<"o","f","f">> THEN Some(0) ELSE parseInt10(raw)
  IN IF IsDefined(minutes) THEN (IF minutes[1] > 0 THEN minutes[1] ELSE 0) ELSE 0

\* prem_modal_autoclose submitted by the member who opened the panel.
PremModalAutoclose(g, raw) ==
  LET PatchOf(view) == AutoClosePatch(ModalMinutes(raw))
  IN GatedSave("modal_autoclose", g, PatchOf)

\* isValidHexColor, normalizeHexColor and looksLikeUrl over the texts the
\* model sends: "f5b301" and "#f5b301" match /^#?[0-9A-Fa-f]{6}$/ and "zzz"
\* does not; new URL() parses "https://x/i.png" and "ftp://x", and only the
\* first has the protocol http: or https:.
isValidHexColor(str) == str \in {"#f5b301", "f5b301"}

normalizeHexColor(str) == IF str = "f5b301" THEN "#f5b301" ELSE str

looksLikeUrl(str) == str \in {"https://x/i.png"}

IconTexts == {"https://x/i.png", "ftp://x"}
AccentTexts == {"f5b301", "zzz"}

\* A premium-gated handler that validates its input: read through
\* getPremiumState, refuse when not premium or when the input is invalid,
\* otherwise savePremiumState(patch).
GatedWrite(op, g, valid, patch) ==
  /\ premOp.n < MaxPremOps
  /\ LET r == GetPremiumState(PREMIUM_GUILDS, diskPremiumGuilds, DISK_FULL, g)
     IN IF ~ r.view.isPremium
        THEN /\ PremiumBecomes(r)
             /\ Logged(op, g, "none", "not_premium", ExpiryPassed(g))
        ELSE IF ~ valid
        THEN /\ PremiumBecomes(r)
             /\ Logged(op, g, "none", "invalid", ExpiryPassed(g))
        ELSE /\ PremiumBecomes(SavePremiumState(r.pg, r.disk, r.full, g, patch))
             /\ Logged(op, g, "none", "saved", ExpiryPassed(g))
  /\ UNCHANGED <<PREMIUM_KEYS, diskPremiumKeys, REQUIRE_PREMIUM>>
  /\ PremFrame

\* ?brandicon <url> by the guild owner.
BrandIcon(g, url) ==
  GatedWrite("brandicon", g, looksLikeUrl(url),
             [NoPremium EXCEPT !.branding = Some([NoBranding EXCEPT !.iconUrl = Some(url)])])

\* ?accent <hex> by the guild owner.
Accent(g, hex) ==
  GatedWrite("accent", g, isValidHexColor(hex),
             [NoPremium EXCEPT !.branding =
                Some([NoBranding EXCEPT !.accent = Some(normalizeHexColor(hex))])])

\* The patch prem_modal_brand builds from its three text fields, already
\* trimmed: an empty icon or accent is stored as null, an accent that is
\* not a color is left out, an icon is taken as it is.
ModalBrandPatch(body) ==
  [NoPremium EXCEPT !.branding =
     Some([ name    |-> Some(IF body.brandName # "" THEN body.brandName ELSE DefaultBrandName),
            iconUrl |-> Some(IF body.iconUrl # "" THEN body.iconUrl ELSE Null),
            accent  |-> IF body.accent # ""
                        THEN (IF isValidHexColor(body.accent)
                              THEN Some(normalizeHexColor(body.accent)) ELSE Undefined)
                        ELSE Some(Null) ])]

\* prem_modal_brand submitted by the member who opened the panel.
PremModalBrand(g, body) == GatedWrite("modal_brand", g, TRUE, ModalBrandPatch(body))

\* Form bodies of POST /server/:guildId/branding, already trimmed; an
\* empty field keeps the stored value.
BrandingBodies ==
  { [brandName |-> "Ticket King", iconUrl |-> "", accent |-> "#f5b301"],
    [brandName |-> "", iconUrl |-> "ftp://x", accent |-> "zzz"] }

OrKeep(str, old) == IF str # "" THEN Some(str) ELSE old

\* POST /server/:guildId/branding
DashboardBranding(g, body) ==
  /\ premOp.n < MaxPremOps
  /\ IF ~ IsTrue(PREMIUM_GUILDS[g].isPremium)
     THEN /\ Logged("dash_branding", g, "none", "requires_premium", ExpiryPassed(g))
          /\ UNCHANGED <<PREMIUM_GUILDS, diskPremiumGuilds, DISK_FULL>>
     ELSE LET next == PREMIUM_GUILDS[g]
              b == IF IsDefined(next.branding) THEN next.branding[1] ELSE NoBranding
              b2 == [ name    |-> OrKeep(body.brandName, b.name),
                      iconUrl |-> OrKeep(body.iconUrl, b.iconUrl),
                      accent  |-> OrKeep(body.accent, b.accent) ]
          IN /\ PREMIUM_GUILDS' = [PREMIUM_GUILDS EXCEPT ![g].branding = Some(b2)]
             /\ diskPremiumGuilds' = DiskAfterWrite(diskPremiumGuilds, PREMIUM_GUILDS')
             /\ DISK_FULL' = DiskFullAfterWrite(DISK_FULL)
             /\ Logged("dash_branding", g, "none", "saved", ExpiryPassed(g))
  /\ UNCHANGED <<PREMIUM_KEYS, diskPremiumKeys, REQUIRE_PREMIUM>>
  /\ PremFrame

\* Dashboard sessions.  A session holds the guild list Discord returned
\* at login, each guild with the user's permission bits there: A1 has
\* Manage Server (0x20) on G1, V1 is a member of G1 without it, and
\* neither is a member of G2.
DashUsers == {"A1", "V1"}

SessionGuilds ==
  [u \in DashUsers |->
     IF u = "A1" THEN << [id |-> "G1", permissions |-> 8 + 32] >>
     ELSE << [id |-> "G1", permissions |-> 2048] >>]

hasManageGuild(g) == (g.permissions \div 32) % 2 = 1

\* DASHBOARD_ALLOWED_GUILDS is empty: every guild is allowed.
ALLOWED_GUILDS == <<>>

allowGuildId(guildId) ==
  Len(ALLOWED_GUILDS) = 0 \/ \E i \in DOMAIN ALLOWED_GUILDS : ALLOWED_GUILDS[i] = guildId

\* The test GET /server/:guildId makes before it shows the edit page.
MayEditGuild(u, guildId) ==
  /\ allowGuildId(guildId)
  /\ \E i \in DOMAIN SessionGuilds[u] :
       SessionGuilds[u][i].id = guildId /\ hasManageGuild(SessionGuilds[u][i])

\* POST /server/:guildId/branding in the session of user u: the route is
\* guarded by requireLogin only and never reads the session's guilds.
DashboardBrandingBy(u, g, body) == DashboardBranding(g, body)

\* Patches POST /server/:guildId/save builds with cleanId and parseIdList
\* from well-formed form fields.
DashboardSavePatches ==
  { [EmptyObject EXCEPT !.supportCategoryId = Some("C2"), !.mmCategoryId = Some("C1"),
                        !.logChannelId = Some("L1"), !.supportRoles = Some(<<"R2">>),
                        !.mmRoles = Some(<<"R1">>), !.adminRoles = Some(<<"R3">>)],
    [EmptyObject EXCEPT !.supportCategoryId = Some(Null), !.mmCategoryId = Some(Null),
                        !.logChannelId = Some("L1"), !.supportRoles = Some(<<>>),
                        !.mmRoles = Some(<<>>), !.adminRoles = Some(<<"R3">>)] }

\* POST /server/:guildId/save in the session of user u.  The handler
\* builds the patch and calls patchGuildConfig, a name that is defined
\* nowhere: the call throws a ReferenceError, the catch sets the flash to
\* "Save failed." and nothing is stored.
DashboardSaveBy(u, g, patch) ==
  /\ premOp.n < MaxPremOps
  /\ Logged("dash_save", g, "none", "save_failed", FALSE)
  /\ UNCHANGED <<PREMIUM_GUILDS, PREMIUM_KEYS, diskPremiumGuilds, diskPremiumKeys,
                 DISK_FULL, REQUIRE_PREMIUM>>
  /\ PremFrame

\* GET /server/:guildId by a user who manages the guild.
DashboardServerPage(g) ==
  /\ premOp.n < MaxPremOps
  /\ IF REQUIRE_PREMIUM /\ ~ IsTrue(PREMIUM_GUILDS[g].isPremium)
     THEN Logged("dash_page", g, "none", "premium_required", ExpiryPassed(g))
     ELSE Logged("dash_page", g, "none", IF REQUIRE_PREMIUM THEN "edit_page_premium" ELSE "edit_page",
                 ExpiryPassed(g))
  /\ UNCHANGED <<PREMIUM_GUILDS, PREMIUM_KEYS, diskPremiumGuilds, diskPremiumKeys,
                 REQUIRE_PREMIUM, DISK_FULL>>
  /\ PremFrame

PremTickSteps == {1000}

PremTick(d) ==
  /\ now + d <= MaxPremTime
  /\ now' = now + d
  /\ UNCHANGED <<store, cfgVars, premVars, ticketVars>>

NoPremOp ==
  [n |-> 0, op |-> "none", guild |-> "G1", key |-> "none", reply |-> "none",
   stale |-> FALSE, owner |-> TRUE]

\* No premium activity: the state of the premium documents in the
\* specifications that do not exercise them.
PremIdle ==
  /\ PREMIUM_GUILDS = [g \in Guilds |-> NoPremium]
  /\ PREMIUM_KEYS = [k \in KeyNames |-> Undefined]
  /\ diskPremiumGuilds = PREMIUM_GUILDS
  /\ diskPremiumKeys = PREMIUM_KEYS
  /\ REQUIRE_PREMIUM = FALSE
  /\ premOp = NoPremOp

\* Premium records the process can load at start: no record, a grant
\* running until t = 1000, and a grant of the older schema without expiry.
ActiveGrant ==
  [ NoPremium EXCEPT !.isPremium = Some(TRUE), !.plan = Some("custom"),
                     !.activatedAt = Some(ToISOString(0)),
                     !.expiresAt = Some(ToISOString(1000)) ]

LifetimeGrant ==
  [ NoPremium EXCEPT !.isPremium = Some(TRUE), !.activatedAt = Some(ToISOString(0)) ]

InitialPremium == {NoPremium, ActiveGrant, LifetimeGrant}

CfgIdle ==
  /\ GUILD_CONFIGS = [g \in Guilds |-> EmptyObject]
  /\ cfgSaveTimer = Undefined
  /\ cfgDirty = FALSE
  /\ cfgWrites = <<>>
  /\ cfgTmp = Undefined
  /\ diskGuildConfigs = GUILD_CONFIGS
  /\ cfgBase = GUILD_CONFIGS
  /\ cfgHist = [g \in Guilds |-> <<>>]
  /\ cfgLog = <<>>

InitPrem ==
  /\ now = 0
  /\ CfgIdle
  /\ DISK_FULL = FALSE
  /\ store = "ok"
  /\ PREMIUM_GUILDS \in [Guilds -> InitialPremium]
  /\ PREMIUM_GUILDS["G2"] = NoPremium
  /\ PREMIUM_KEYS = [k \in KeyNames |-> IF k = "K1" THEN Some(NewKey([ms |-> 1000, plan |-> "custom", days |-> 1])) ELSE Undefined]
  /\ diskPremiumGuilds = PREMIUM_GUILDS
  /\ diskPremiumKeys = PREMIUM_KEYS
  /\ REQUIRE_PREMIUM \in BOOLEAN
  /\ premOp = NoPremOp
  /\ TicketIdle

NextPrem ==
  \/ \E key \in GenKeys, dur \in GenDurations : PremiumGen(key, dur)
  \/ \E g \in Guilds, key \in KeyNames, isOwner \in BOOLEAN : PremiumRedeem(g, key, isOwner)
  \/ \E g \in Guilds : PremiumHelp(g)
  \/ \E g \in Guilds, name \in BrandNames : BrandName(g, name)
  \/ \E g \in Guilds : PremToggleClaim(g)
  \/ \E g \in Guilds, body \in BrandingBodies : DashboardBranding(g, body)
  \/ \E g \in Guilds : DashboardServerPage(g)
  \/ \E d \in PremTickSteps : PremTick(d)

SpecPrem == InitPrem /\ [][NextPrem]_vars

\* The same handlers on a file system that can fill up, break and recover.
NextPremFaults == NextPrem \/ \E c \in WriteOutcomes : StoreChanges(c)

SpecPremFaults == InitPrem /\ [][NextPremFaults]_vars

\* The process starts: the documents are read from the files, the flag and
\* the debounce state have their initial values.
LoadedFromDisk ==
  /\ PREMIUM_GUILDS' = diskPremiumGuilds'
  /\ PREMIUM_KEYS' = diskPremiumKeys'
  /\ GUILD_CONFIGS' = diskGuildConfigs
  /\ DISK_FULL' = FALSE
  /\ cfgSaveTimer' = Undefined
  /\ cfgDirty' = FALSE
  /\ cfgWrites' = <<>>
  /\ UNCHANGED <<now, store, cfgTmp, diskGuildConfigs, cfgBase, cfgHist, cfgLog,
                 REQUIRE_PREMIUM, ticketVars>>

\* The process stops between two handlers and is started again.
Restart ==
  /\ premOp.n < MaxPremOps
  /\ UNCHANGED <<diskPremiumGuilds, diskPremiumKeys>>
  /\ LoadedFromDisk
  /\ Logged("restart", "G1", "none", "restarted", FALSE)

\* ?premium-redeem <key> by the owner of g with a key that is accepted:
\* the process stops after writeJsonSafe(PREMIUM_KEYS_FILE, PREMIUM_KEYS)
\* and before savePremiumState, and is started again.
RedeemStopped(g, key) ==
  /\ premOp.n < MaxPremOps
  /\ IsDefined(PREMIUM_KEYS[key])
  /\ ~ KeyIsUsed(PREMIUM_KEYS[key][1])
  /\ diskPremiumKeys' =
       DiskAfterWrite(diskPremiumKeys,
                      [PREMIUM_KEYS EXCEPT ![key] =
                         Some([PREMIUM_KEYS[key][1] EXCEPT !.used = TRUE,
                                                          !.usedByGuildId = Some(g),
                                                          !.usedAt = Some(ToISOString(now))])])
  /\ UNCHANGED diskPremiumGuilds
  /\ LoadedFromDisk
  /\ LoggedRedeem(g, key, "stopped", TRUE)

\* One stored key, no guild premium yet.
InitRestart ==
  /\ InitPrem
  /\ PREMIUM_GUILDS = [g \in Guilds |-> NoPremium]
  /\ REQUIRE_PREMIUM = FALSE

NextRestart ==
  \/ \E g \in Guilds, key \in KeyNames : PremiumRedeem(g, key, TRUE)
  \/ \E g \in Guilds, key \in KeyNames : RedeemStopped(g, key)
  \/ Restart
  \/ \E g \in Guilds : PremiumHelp(g)
  \/ \E c \in WriteOutcomes : StoreChanges(c)
  \/ \E d \in PremTickSteps : PremTick(d)

SpecRestart == InitRestart /\ [][NextRestart]_vars

\* The bot owner generating keys from duration arguments, starting with no
\* key at all.
InitDuration ==
  /\ now = 0
  /\ CfgIdle
  /\ DISK_FULL = FALSE
  /\ store = "ok"
  /\ PREMIUM_GUILDS = [g \in Guilds |-> NoPremium]
  /\ PREMIUM_KEYS = [k \in KeyNames |-> Undefined]
  /\ diskPremiumGuilds = PREMIUM_GUILDS
  /\ diskPremiumKeys = PREMIUM_KEYS
  /\ REQUIRE_PREMIUM = FALSE
  /\ premOp = NoPremOp
  /\ TicketIdle

NextDuration == \E key \in KeyNames, planArg \in DurationArgs : PremiumGenArg(key, planArg)

SpecDuration == InitDuration /\ [][NextDuration]_vars

\* The auto-close setting of the guilds, set by command and by modal.
NextMinutes ==
  \/ \E g \in Guilds, raw \in MinuteTexts : AutoClose(g, raw)
  \/ \E g \in Guilds, raw \in MinuteTexts : PremModalAutoclose(g, raw)
  \/ \E d \in PremTickSteps : PremTick(d)

SpecMinutes == InitPrem /\ [][NextMinutes]_vars

\* savePremiumState applied to stored records and patches of every shape:
\* a guild without a record or with every branding and feature key set,
\* and patches naming one branding key, one feature key, keys of both, or
\* the support entry of features.ticketPings alone.
PingTypes == {"support", "trade"}

PingHere == [roles |-> <<>>, here |-> TRUE, everyone |-> FALSE]
PingRole == [roles |-> <<"R1">>, here |-> FALSE, everyone |-> FALSE]

FullRecord ==
  [ ActiveGrant EXCEPT
      !.branding = Some([name |-> Some("Ticket King"), iconUrl |-> Some("https://x/i.png"),
                         accent |-> Some("#112233")]),
      !.features = Some([NoFeatures EXCEPT
                           !.autoTagClaims = Some(TRUE),
                           !.transcripts = Some(TRUE),
                           !.autoCloseMinutes = Some(30),
                           !.ticketPings = Some([support |-> Some(PingHere),
                                                 trade |-> Some(PingHere)])]) ]

MergeStored == {NoPremium, FullRecord}

MergePatches ==
  { [NoPremium EXCEPT !.branding = Some([NoBranding EXCEPT !.accent = Some("#f5b301")])],
    [NoPremium EXCEPT !.features = Some([NoFeatures EXCEPT !.autoTagClaims = Some(FALSE)])],
    [NoPremium EXCEPT !.branding = Some([NoBranding EXCEPT !.name = Some("Nozz")]),
                      !.features = Some([NoFeatures EXCEPT !.transcripts = Some(FALSE)])],
    [NoPremium EXCEPT !.features =
       Some([NoFeatures EXCEPT !.ticketPings = Some([support |-> Some(PingRole),
                                                     trade |-> Undefined])])] }

\* One call savePremiumState(g, patch).
SavePremiumStateCalled(g, patch) ==
  /\ premOp.n < MaxPremOps
  /\ PremiumBecomes(SavePremiumState(PREMIUM_GUILDS, diskPremiumGuilds, DISK_FULL, g, patch))
  /\ Logged("save", g, "none", "saved", FALSE)
  /\ UNCHANGED <<PREMIUM_KEYS, diskPremiumKeys, REQUIRE_PREMIUM>>
  /\ PremFrame

InitMerge ==
  /\ now = 0
  /\ CfgIdle
  /\ DISK_FULL = FALSE
  /\ store = "ok"
  /\ PREMIUM_GUILDS \in [Guilds -> MergeStored]
  /\ PREMIUM_KEYS = [k \in KeyNames |-> Undefined]
  /\ diskPremiumGuilds = PREMIUM_GUILDS
  /\ diskPremiumKeys = PREMIUM_KEYS
  /\ REQUIRE_PREMIUM = FALSE
  /\ premOp = NoPremOp
  /\ TicketIdle

NextMerge == \E g \in Guilds, patch \in MergePatches : SavePremiumStateCalled(g, patch)

SpecMerge == InitMerge /\ [][NextMerge]_vars

\* The writers of a guild's branding: the two prefix commands, the
\* premium modal and the dashboard form.
NextBrand ==
  \/ \E g \in Guilds, url \in IconTexts : BrandIcon(g, url)
  \/ \E g \in Guilds, hex \in AccentTexts : Accent(g, hex)
  \/ \E g \in Guilds, body \in BrandingBodies : PremModalBrand(g, body)
  \/ \E g \in Guilds, body \in BrandingBodies : DashboardBranding(g, body)

SpecBrand == InitPrem /\ [][NextBrand]_vars

\* The two POST routes of the dashboard, used by logged-in users.
NextDash ==
  \/ \E u \in DashUsers, g \in Guilds, body \in BrandingBodies : DashboardBrandingBy(u, g, body)
  \/ \E u \in DashUsers, g \in Guilds, patch \in DashboardSavePatches : DashboardSaveBy(u, g, patch)

SpecDash == InitPrem /\ [][NextDash]_vars

\* Stored records the process can load at start: a guild never set up, a
\* record of the older schema (identifiers but no explicit toggles), and a
\* record written by saveGuildConfig.
LegacyStored ==
  [EmptyObject EXCEPT !.supportCategoryId = Some("C1"),
                      !.logChannelId = Some("L1"),
                      !.mmRoles = Some(<<"R2">>)]

InitialStored ==
  { EmptyObject, LegacyStored, NextStoredConfig(EmptyObject, P1("mmCategoryId", "C2")) }

InitCfg ==
  /\ now = 0
  /\ GUILD_CONFIGS \in [Guilds -> InitialStored]
  /\ GUILD_CONFIGS["G2"] = EmptyObject
  /\ cfgSaveTimer = Undefined
  /\ cfgDirty = FALSE
  /\ cfgWrites = <<>>
  /\ cfgTmp = Undefined
  /\ diskGuildConfigs = GUILD_CONFIGS
  /\ DISK_FULL = FALSE
  /\ store = "ok"
  /\ cfgBase = GUILD_CONFIGS
  /\ cfgHist = [g \in Guilds |-> <<>>]
  /\ cfgLog = <<>>
  /\ PremIdle
  /\ TicketIdle

NextCfg ==
  \/ \E g \in Guilds, patch \in CfgPatches : SaveGuildConfig(g, patch)
  \/ \E g \in Guilds, flag \in EnabledFields : SetupToggle(g, flag)
  \/ CfgSaveTimerFire
  \/ \E i \in 1..MaxSaves : CfgWriteFileDone(i)
  \/ \E i \in 1..MaxSaves : CfgRenameDone(i)
  \/ \E d \in CfgTickSteps : CfgTick(d)

SpecCfg == InitCfg /\ [][NextCfg]_vars

\* The same handlers on a file system that can fill up, break and recover.
NextCfgFaults == NextCfg \/ \E c \in WriteOutcomes : StoreChanges(c)

SpecCfgFaults == InitCfg /\ [][NextCfgFaults]_vars

\* The debounced write alone: few patches, so that longer bursts stay small.
DebouncePatches ==
  { P1("supportRoles", <<"R1">>),
    P1("logChannelId", "L1"),
    P1("supportEnabled", TRUE) }

NextDebounce ==
  \/ \E g \in Guilds, patch \in DebouncePatches : SaveGuildConfig(g, patch)
  \/ CfgSaveTimerFire
  \/ \E i \in 1..MaxSaves : CfgWriteFileDone(i)
  \/ \E i \in 1..MaxSaves : CfgRenameDone(i)
  \/ \E d \in CfgTickSteps : CfgTick(d)

SpecDebounce == InitCfg /\ [][NextDebounce]_vars

\* Bursts far enough apart for two writes, which may overlap on the
\* temporary path and settle in any order.
NextOverlap ==
  \/ \E g \in Guilds, patch \in DebouncePatches : SaveGuildConfig(g, patch)
  \/ CfgSaveTimerFire
  \/ \E i \in 1..MaxSaves : CfgWriteFileDone(i)
  \/ \E i \in 1..MaxSaves : CfgRenameLogged(i)
  \/ CfgTimerWait

SpecOverlap == InitCfg /\ [][NextOverlap]_vars

\* The debounced write on a file system that can fill up, break and
\* recover.  The event loop runs every due timer callback and settles every
\* file-system promise, and time passes; nothing obliges a caller to save
\* again or the file system to change.
NextDebounceFaults == NextDebounce \/ \E c \in WriteOutcomes : StoreChanges(c)

FairDebounceFaults ==
  /\ InitCfg
  /\ [][NextDebounceFaults]_vars
  /\ WF_vars(CfgSaveTimerFire)
  /\ WF_vars(\E i \in 1..MaxSaves : CfgWriteFileDone(i))
  /\ WF_vars(\E i \in 1..MaxSaves : CfgRenameDone(i))
  /\ WF_vars(\E d \in CfgTickSteps : CfgTick(d))

\* ---------------------------------------------------------------------
\* The configuration store of index.js
\* ---------------------------------------------------------------------
\* index.js keeps the same guildConfigs document but has no enabled flags,
\* no panel text, no debounce and no temporary file.  Its defaults come
\* from config.json; a public installation leaves them empty.
IndexDefaultConfig ==
  [ EmptyObject EXCEPT
      !.supportCategoryId = Some(Null),
      !.mmCategoryId      = Some(Null),
      !.logChannelId      = Some(Null),
      !.supportRoles      = Some(<<>>),
      !.mmRoles           = Some(<<>>),
      !.adminRoles        = Some(<<>>) ]

IndexGetGuildConfigOf(saved) ==
  LET def == IndexDefaultConfig
      merged == Spread(def, saved)
  IN [ merged EXCEPT
         !.supportRoles = Some(normalizeArray(Coalesce(saved.supportRoles, def.supportRoles))),
         !.mmRoles      = Some(normalizeArray(Coalesce(saved.mmRoles, def.mmRoles))),
         !.adminRoles   = Some(normalizeArray(Coalesce(saved.adminRoles, def.adminRoles))) ]

IndexNextStored(saved, patch) ==
  LET next == Spread(IndexGetGuildConfigOf(saved), patch)
  IN [ f \in CfgFields |->
         IF f \in RoleFields /\ IsDefined(patch[f])
         THEN Some(normalizeArray(patch[f]))
         ELSE next[f] ]

\* What readJsonSafe loads from a file that a failed write left empty or
\* cut short: JSON.parse("" || "{}"), or the default {} after a parse error.
LostDocument == [g \in Guilds |-> EmptyObject]

\* writeJsonSafe of index.js: fs.writeFileSync(file, ...) opens the target
\* itself for writing.  A failure before the file is opened leaves it as it
\* was; a failure after it was truncated leaves it empty or cut short.  The
\* exception is caught.
IndexWriteJsonSafe(disk, data) ==
  IF store = "ok" THEN {data} ELSE {disk, LostDocument}

IndexPatches ==
  { P1("supportCategoryId", "C1"),
    P1("logChannelId", "L1"),
    P1("supportRoles", <<"R1">>),
    P1("adminRoles", <<"R3", "R3">>) }

\* saveGuildConfig of index.js: update the memory, write the file at once.
IndexSaveGuildConfig(g, patch) ==
  /\ CfgOnly
  /\ UNCHANGED store
  /\ SavesDone < MaxSaves
  /\ GUILD_CONFIGS' = [GUILD_CONFIGS EXCEPT ![g] = IndexNextStored(@, patch)]
  /\ diskGuildConfigs' \in IndexWriteJsonSafe(diskGuildConfigs, GUILD_CONFIGS')
  /\ cfgHist' = [cfgHist EXCEPT ![g] = Append(@, patch)]
  /\ cfgLog' = Append(cfgLog, [ev |-> "save", at |-> now, snap |-> GUILD_CONFIGS'])
  /\ UNCHANGED <<now, cfgSaveTimer, cfgDirty, cfgWrites, cfgTmp, DISK_FULL, cfgBase>>

InitIndex ==
  /\ now = 0
  /\ GUILD_CONFIGS \in [Guilds -> {EmptyObject, LegacyStored}]
  /\ cfgSaveTimer = Undefined
  /\ cfgDirty = FALSE
  /\ cfgWrites = <<>>
  /\ cfgTmp = Undefined
  /\ diskGuildConfigs = GUILD_CONFIGS
  /\ DISK_FULL = FALSE
  /\ store = "ok"
  /\ cfgBase = GUILD_CONFIGS
  /\ cfgHist = [g \in Guilds |-> <<>>]
  /\ cfgLog = <<>>
  /\ PremIdle
  /\ TicketIdle

NextIndex ==
  \/ \E g \in Guilds, patch \in IndexPatches : IndexSaveGuildConfig(g, patch)
  \/ \E c \in WriteOutcomes : StoreChanges(c)

SpecIndex == InitIndex /\ [][NextIndex]_vars

\* ---------------------------------------------------------------------
\* Tickets: topic, roles and permissions
\* ---------------------------------------------------------------------
\* The guild whose ticket channel is followed.
TicketGuild == "G1"

\* Members of the guild and the roles they hold; "bot" is guild.members.me.
Actors == {"U1", "S1", "S2", "A1"}

\* The guild owner and a bot owner; neither holds a role.
GuildOwnerId == "O1"
OWNER_IDS == {"B1"}
isBotOwner(userId) == userId \in OWNER_IDS

MemberRoles ==
  [ a \in Actors \cup {"bot", GuildOwnerId} \cup OWNER_IDS |->
      CASE a = "S1" -> {"R1"}
        [] a = "S2" -> {"R1", "R2"}
        [] a = "A1" -> {"R3"}
        [] OTHER    -> {} ]

\* What guild.channels.fetch(id) finds on the platform.
PlatformType(id) ==
  CASE id \in {"C1", "C2"} -> "category"
    [] id = "L1"           -> "text"
    [] OTHER               -> "missing"

\* A topic is the list of its ";"-separated parts, each split at ":" into
\* a key and a value.
Str(v) == IF v = Null THEN "null" ELSE v

makeTopicNoClaimer(openerId, claimerId) ==
  << <<"opened", Str(openerId)>>, <<"claimed", "null">> >>

\* makeTopic(openerId, claimerId = null)
makeTopic(openerId, claimerId) ==
  << <<"opened", Str(openerId)>>, <<"claimed", Str(claimerId)>> >>

RECURSIVE ParseParts(_, _)
ParseParts(parts, def) ==
  IF parts = <<>> THEN def
  ELSE LET k == Head(parts)[1]
           v == Head(parts)[2]
           d1 == IF k = "opened"
                 THEN [def EXCEPT !.opened = IF v # "" THEN v ELSE Null]
                 ELSE def
           d2 == IF k = "claimed"
                 THEN [d1 EXCEPT !.claimed = IF v # "" /\ v # "null" THEN v ELSE Null]
                 ELSE d1
       IN ParseParts(Tail(parts), d2)

\* parseTopic(topic); the empty list stands for a null or empty topic.
parseTopic(topic) == ParseParts(topic, [opened |-> Null, claimed |-> Null])

SeqToSet(s) == {s[i] : i \in 1..Len(s)}

HasRoleIn(member, list) == MemberRoles[member] \cap SeqToSet(list) # {}

isAdmin(member) == HasRoleIn(member, getGuildConfig(TicketGuild).adminRoles[1])
isSupport(member) == HasRoleIn(member, getGuildConfig(TicketGuild).supportRoles[1])
isTradeStaff(member) == HasRoleIn(member, getGuildConfig(TicketGuild).mmRoles[1])

\* canManageTicket(member, channel) for a text channel.
canManageTicket(member, ch) ==
  LET cfg == getGuildConfig(TicketGuild)
  IN IF isAdmin(member) THEN TRUE
     ELSE IF ch.parentId = cfg.supportCategoryId[1] THEN isSupport(member)
     ELSE IF ch.parentId = cfg.mmCategoryId[1] THEN isSupport(member) \/ isTradeStaff(member)
     ELSE FALSE

TicketPrefixes == {"ticket", "support", "trade", "mm"}

\* isTicketChannel(channel) for a text channel; a name is the list of its
\* "-"-separated segments.
isTicketChannel(ch) ==
  LET cfg == getGuildConfig(TicketGuild)
  IN \/ Truthy(cfg.supportCategoryId) /\ ch.parentId = cfg.supportCategoryId[1]
     \/ Truthy(cfg.mmCategoryId) /\ ch.parentId = cfg.mmCategoryId[1]
     \/ parseTopic(ch.topic).opened # Null
     \/ Len(ch.name) > 1 /\ ch.name[1] \in TicketPrefixes

\* name.replace(/^claimed-+/i, "")
StripClaimed(name) ==
  IF Len(name) > 1 /\ name[1] = "claimed" THEN Tail(name) ELSE name

\* ---------------------------------------------------------------------
\* Ticket creation (modal_support / modal_trade)
\* ---------------------------------------------------------------------
TicketTypes == {"Support", "Trade"}

FeatureDisabledNever(cfg, type) == FALSE

\* if (!cfg.supportEnabled) / if (!cfg.tradeEnabled) of ensureDefaultSetup
FeatureDisabled(cfg, type) ==
  IF type = "Support" THEN ~ cfg.supportEnabled[1] ELSE ~ cfg.tradeEnabled[1]

\* validateCategory / validateTextChannel of ensureDefaultSetup
Validate(idOpt, wanted) ==
  IF ~ Truthy(idOpt) THEN "MISSING"
  ELSE IF PlatformType(idOpt[1]) # wanted THEN "INVALID"
  ELSE "ok"

\* ensureDefaultSetup(guild, {support, trade, logs: true}) on the
\* configuration cfg it reads; yields ok and the reason.
ensureDefaultSetup(cfg, type) ==
  LET cat == IF type = "Support" THEN cfg.supportCategoryId ELSE cfg.mmCategoryId
  IN IF FeatureDisabled(cfg, type)
     THEN [ok |-> FALSE, reason |-> IF type = "Support" THEN "SUPPORT_DISABLED" ELSE "TRADE_DISABLED"]
     ELSE IF Validate(cat, "category") # "ok"
     THEN [ok |-> FALSE, reason |-> "BAD_CATEGORY_ID"]
     ELSE IF ~ cfg.logsEnabled[1]
     THEN [ok |-> TRUE, reason |-> "none"]
     ELSE IF Validate(cfg.logChannelId, "text") # "ok"
     THEN [ok |-> FALSE, reason |-> "BAD_LOG_CHANNEL_ID"]
     ELSE [ok |-> TRUE, reason |-> "none"]


MinuteMs == 60000
GraceMs == 2000

TicketFrame ==
  UNCHANGED <<now, store, GUILD_CONFIGS, cfgSaveTimer, cfgDirty, cfgWrites, cfgTmp,
              diskGuildConfigs, cfgBase, cfgHist, cfgLog, PREMIUM_KEYS, diskPremiumKeys,
              REQUIRE_PREMIUM, premOp, ratingVars, panels>>

NoPremCall == UNCHANGED <<PREMIUM_GUILDS, diskPremiumGuilds, DISK_FULL>>

\* What the bot sent to the platform, in order.
Event(ev, req) == [ev |-> ev, req |-> req, at |-> now]

EffectiveEnabled(type) ==
  IF type = "Support" THEN getGuildConfig(TicketGuild).supportEnabled[1]
  ELSE getGuildConfig(TicketGuild).tradeEnabled[1]

\* The modal is submitted: the handler starts and awaits deferReply.
ModalSubmit(u, type) ==
  /\ creation.pc = "idle"
  /\ creation' = [creation EXCEPT !.pc = "deferred", !.user = u, !.type = type,
                                  !.enabledAtSubmit = EffectiveEnabled(type)]
  /\ UNCHANGED <<channel, reqs, events, timers>>
  /\ NoPremCall
  /\ TicketFrame

\* After deferReply: ensureDefaultSetup reads the configuration and
\* validates it; a failure is answered and ends the handler.
CreateEnsure ==
  /\ creation.pc = "deferred"
  /\ LET cfg == getGuildConfig(TicketGuild)
         ensured == ensureDefaultSetup(cfg, creation.type)
     IN creation' =
          IF ensured.ok
          THEN [creation EXCEPT !.pc = "create", !.cfg = cfg,
                                !.enabledAtCheck = EffectiveEnabled(creation.type)]
          ELSE [creation EXCEPT !.pc = "done", !.reply = ensured.reason,
                                !.enabledAtCheck = EffectiveEnabled(creation.type)]
  /\ UNCHANGED <<channel, reqs, events, timers>>
  /\ NoPremCall
  /\ TicketFrame

\* guild.roles.cache: the roles of the guild.  R9 is configured in some
\* guilds but was deleted from the guild.
GuildRoles == {"R1", "R2", "R3"}

\* [...new Set(arr)]: the first occurrence of each element, in order.
RECURSIVE Uniq(_)
Uniq(arr) ==
  IF arr = <<>> THEN <<>>
  ELSE LET rest == Uniq(SubSeq(arr, 1, Len(arr) - 1))
           last == arr[Len(arr)]
       IN IF \E i \in DOMAIN rest : rest[i] = last THEN rest ELSE Append(rest, last)

RoleCachedAlways(roleId) == TRUE

\* guild.roles.cache.has(roleId) of buildRoleOverwrites
RoleCached(roleId) == roleId \in GuildRoles

AllowBase(ids) == [i \in DOMAIN ids |-> [id |-> ids[i], perm |-> "allow_base"]]

buildRoleOverwrites(roleIds) ==
  AllowBase(SelectSeq(Uniq(FilterSnowflakes(roleIds)), RoleCached))

\* The permissionOverwrites of a new ticket channel: ViewChannel denied to
\* the everyone-role (its id is the guild id), basePerms allowed to the
\* opener and to the roles of the lists that belong to the ticket type.
TicketOverwrites(user, type, cfg) ==
  << [id |-> TicketGuild, perm |-> "deny_view"], [id |-> user, perm |-> "allow_base"] >>
    \o (IF type = "Support"
        THEN buildRoleOverwrites(cfg.supportRoles[1]) \o buildRoleOverwrites(cfg.adminRoles[1])
        ELSE buildRoleOverwrites(cfg.mmRoles[1]) \o buildRoleOverwrites(cfg.supportRoles[1])
               \o buildRoleOverwrites(cfg.adminRoles[1]))

\* ensureRolesCached, getPremiumState (name template) and
\* guild.channels.create; a rejected create is answered with the error text.
CreateChannel(ok) ==
  /\ creation.pc = "create"
  /\ LET p == GetPremiumState(PREMIUM_GUILDS, diskPremiumGuilds, DISK_FULL, TicketGuild)
         categoryId == IF creation.type = "Support"
                       THEN creation.cfg.supportCategoryId[1]
                       ELSE creation.cfg.mmCategoryId[1]
     IN /\ PremiumBecomes(p)
        /\ IF ok
           THEN /\ channel' = [exists |-> TRUE, parentId |-> categoryId, topic |-> <<>>,
                               name |-> <<"ticket", creation.user>>,
                               overwrites |-> TicketOverwrites(creation.user, creation.type,
                                                               creation.cfg)]
                /\ events' = Append(events, Event("channel_created", 0))
                /\ creation' = [creation EXCEPT !.pc = "topic"]
           ELSE /\ creation' = [creation EXCEPT !.pc = "done", !.reply = "create_failed"]
                /\ UNCHANGED <<channel, events>>
  /\ UNCHANGED <<reqs, timers>>
  /\ TicketFrame

\* channel.setTopic(makeTopic(user.id)) completes (a failure is swallowed).
CreateTopicDone ==
  /\ creation.pc = "topic"
  /\ IF channel.exists
     THEN /\ channel' = [channel EXCEPT !.topic = makeTopic(creation.user, Null)]
          /\ events' = Append(events, Event("topic_set", 0))
     ELSE UNCHANGED <<channel, events>>
  /\ creation' = [creation EXCEPT !.pc = "messages"]
  /\ UNCHANGED <<reqs, timers>>
  /\ NoPremCall
  /\ TicketFrame

\* channel.setTopic(makeTopic(user.id)) of the creation handler is rejected
\* by the platform: .catch(() => {}) swallows the rejection and the handler
\* goes on with a channel that has no topic.
CreateTopicRejected ==
  /\ creation.pc = "topic"
  /\ channel.exists
  /\ creation' = [creation EXCEPT !.pc = "messages"]
  /\ UNCHANGED <<channel, events, reqs, timers>>
  /\ NoPremCall
  /\ TicketFrame

\* The ping, the ticket embed and the auto-close timer.  The embed send is
\* not guarded: on a channel that is gone it throws into the catch block.
CreateMessages ==
  /\ creation.pc = "messages"
  /\ LET p == GetPremiumState(PREMIUM_GUILDS, diskPremiumGuilds, DISK_FULL, TicketGuild)
         mins == IF p.view.isPremium THEN normalizeMinutes(p.view.features.autoCloseMinutes) ELSE 0
     IN /\ PremiumBecomes(p)
        /\ IF channel.exists
           THEN /\ events' = events \o <<Event("ping", 0), Event("embed", 0)>>
                /\ timers' = IF mins > 0
                             THEN timers \cup {[kind |-> "auto_close", req |-> 0, due |-> now + mins * MinuteMs]}
                             ELSE timers
                /\ creation' = [creation EXCEPT !.pc = "log"]
           ELSE /\ creation' = [creation EXCEPT !.pc = "done", !.reply = "create_failed"]
                /\ UNCHANGED <<events, timers>>
  /\ UNCHANGED <<channel, reqs>>
  /\ TicketFrame

\* sendLog(guild, embed): sends when a log channel is configured and found.
LogSendable ==
  LET cfg == getGuildConfig(TicketGuild)
  IN Truthy(cfg.logChannelId) /\ PlatformType(cfg.logChannelId[1]) # "missing"

sendLog(ev, req) ==
  IF LogSendable THEN <<Event(ev, req)>> ELSE <<>>

\* The "Ticket Created" log and the final answer.
CreateLog ==
  /\ creation.pc = "log"
  /\ events' = events \o sendLog("log_created", 0)
  /\ creation' = [creation EXCEPT !.pc = "done", !.reply = "created"]
  /\ UNCHANGED <<channel, reqs, timers>>
  /\ NoPremCall
  /\ TicketFrame

\* ---------------------------------------------------------------------
\* Requests inside the ticket channel
\* ---------------------------------------------------------------------
\* A request carries its handler's position and locals; afterOthers is
\* history: whether every earlier request had finished when this one
\* arrived.
NewRequest(kind, actor, reason) ==
  [ kind |-> kind, actor |-> actor, reason |-> reason, pc |-> "start",
    opened |-> Null, nextName |-> <<>>, reply |-> "none",
    afterOthers |-> \A i \in DOMAIN reqs : reqs[i].pc = "done" ]

Answer(r, reply) == [r EXCEPT !.pc = "done", !.reply = reply]

\* Requests are followed from the moment the creation handler has
\* finished, in a channel that still exists.
CanStart == channel.exists /\ creation.pc = "done" /\ Len(reqs) < MaxOps

At(i, kind, pc) == reqs[i].kind = kind /\ reqs[i].pc = pc

\* Button claim_ticket: the handler starts and awaits deferReply.
ClaimButton(a) ==
  /\ CanStart
  /\ reqs' = Append(reqs, [NewRequest("claim_button", a, FALSE) EXCEPT !.pc = "deferred"])
  /\ UNCHANGED <<channel, creation, events, timers>>
  /\ NoPremCall
  /\ TicketFrame

\* After deferReply: the permission check, the read of the topic and the
\* call of setTopic.
ClaimButtonCheck(i) ==
  /\ At(i, "claim_button", "deferred")
  /\ LET r == reqs[i]
         t == parseTopic(channel.topic)
     IN reqs' = [reqs EXCEPT ![i] =
          IF ~ canManageTicket(r.actor, channel) THEN Answer(r, "not_allowed")
          ELSE IF t.claimed # Null THEN Answer(r, "already_claimed")
          ELSE [r EXCEPT !.pc = "setTopic", !.opened = t.opened]]
  /\ UNCHANGED <<channel, creation, events, timers>>
  /\ NoPremCall
  /\ TicketFrame

\* channel.setTopic(makeTopic(t.opened, member.user.id)) completes; on a
\* deleted channel it fails and the failure is swallowed.
ClaimButtonTopicDone(i) ==
  /\ At(i, "claim_button", "setTopic")
  /\ channel' = IF channel.exists
                THEN [channel EXCEPT !.topic = makeTopic(reqs[i].opened, reqs[i].actor)]
                ELSE channel
  /\ reqs' = [reqs EXCEPT ![i].pc = "tail"]
  /\ UNCHANGED <<creation, events, timers>>
  /\ NoPremCall
  /\ TicketFrame

\* The rest of the handler: the edit of the ticket message, the "Ticket
\* Claimed" log, the notice in the channel and the answer.
ClaimButtonFinish(i) ==
  /\ At(i, "claim_button", "tail")
  /\ events' = events \o sendLog("log_claimed", i)
                      \o (IF channel.exists THEN <<Event("claim_notice", i)>> ELSE <<>>)
  /\ reqs' = [reqs EXCEPT ![i] = Answer(@, "claimed")]
  /\ UNCHANGED <<channel, creation, timers>>
  /\ NoPremCall
  /\ TicketFrame

\* /claim: the checks and the call of setTopic run without suspension.
Claim(a) ==
  /\ CanStart
  /\ LET r == NewRequest("claim", a, FALSE)
         topic == parseTopic(channel.topic)
     IN reqs' = Append(reqs,
          IF ~ isTicketChannel(channel) THEN Answer(r, "not_ticket")
          ELSE IF ~ canManageTicket(a, channel) THEN Answer(r, "not_allowed")
          ELSE IF topic.claimed # Null /\ topic.claimed # "null" THEN Answer(r, "already_claimed")
          ELSE [r EXCEPT !.pc = "setTopic",
                         !.opened = IF topic.opened # Null THEN topic.opened ELSE "unknown"])
  /\ UNCHANGED <<channel, creation, events, timers>>
  /\ NoPremCall
  /\ TicketFrame

\* The topic a /claim or /unclaim writes, and the name it wants.
CommandTopic(r) ==
  << <<"opened", r.opened>>,
     <<"claimed", IF r.kind = "claim" THEN r.actor ELSE "null">> >>

CommandName(r, name) ==
  IF r.kind = "claim"
  THEN <<"claimed">> \o StripClaimed(name)
  ELSE IF Len(name) > 1 /\ name[1] = "claimed" THEN StripClaimed(name) ELSE name

\* setTopic of /claim or /unclaim completes; then getPremiumState and,
\* for a premium guild with autoTagClaims, the call of setName.
CommandTopicDone(i) ==
  /\ reqs[i].kind \in {"claim", "unclaim"}
  /\ reqs[i].pc = "setTopic"
  /\ LET r == reqs[i]
         p == GetPremiumState(PREMIUM_GUILDS, diskPremiumGuilds, DISK_FULL, TicketGuild)
         nextName == CommandName(r, channel.name)
         rename == /\ p.view.isPremium
                   /\ p.view.features.autoTagClaims
                   /\ nextName # channel.name
     IN /\ PremiumBecomes(p)
        /\ channel' = IF channel.exists
                      THEN [channel EXCEPT !.topic = CommandTopic(r)]
                      ELSE channel
        /\ reqs' = [reqs EXCEPT ![i] =
             IF rename THEN [r EXCEPT !.pc = "setName", !.nextName = nextName]
             ELSE Answer(r, IF r.kind = "claim" THEN "claimed" ELSE "unclaimed")]
  /\ UNCHANGED <<creation, events, timers>>
  /\ TicketFrame

\* setName completes and the request is answered.
CommandNameDone(i) ==
  /\ reqs[i].kind \in {"claim", "unclaim"}
  /\ reqs[i].pc = "setName"
  /\ channel' = IF channel.exists
                THEN [channel EXCEPT !.name = reqs[i].nextName]
                ELSE channel
  /\ reqs' = [reqs EXCEPT ![i] = Answer(@, IF @.kind = "claim" THEN "claimed" ELSE "unclaimed")]
  /\ UNCHANGED <<creation, events, timers>>
  /\ NoPremCall
  /\ TicketFrame

MayUnclaimAnyone(claimed, a) == TRUE

\* topic.claimed === interaction.user.id || isAdmin(interaction.member)
MayUnclaim(claimed, a) == claimed = a \/ isAdmin(a)

\* /unclaim: the checks and the call of setTopic run without suspension.
Unclaim(a) ==
  /\ CanStart
  /\ LET r == NewRequest("unclaim", a, FALSE)
         topic == parseTopic(channel.topic)
     IN reqs' = Append(reqs,
          IF ~ isTicketChannel(channel) THEN Answer(r, "not_ticket")
          ELSE IF ~ canManageTicket(a, channel) THEN Answer(r, "not_allowed")
          ELSE IF topic.claimed = Null THEN Answer(r, "not_claimed")
          ELSE IF ~ MayUnclaim(topic.claimed, a) THEN Answer(r, "forbidden")
          ELSE [r EXCEPT !.pc = "setTopic",
                         !.opened = IF topic.opened # Null THEN topic.opened ELSE "unknown"])
  /\ UNCHANGED <<channel, creation, events, timers>>
  /\ NoPremCall
  /\ TicketFrame

\* /close [reason]: the checks, then the answer "Closing ticket..." is
\* awaited before closeTicket runs.
Close(a, reason) ==
  /\ CanStart
  /\ LET r == NewRequest("close", a, reason)
     IN reqs' = Append(reqs,
          IF ~ isTicketChannel(channel) THEN Answer(r, "not_ticket")
          ELSE IF ~ canManageTicket(a, channel) THEN Answer(r, "not_allowed")
          ELSE [r EXCEPT !.pc = "closeTicket", !.reply = "closing"])
  /\ UNCHANGED <<channel, creation, events, timers>>
  /\ NoPremCall
  /\ TicketFrame

\* Button close_ticket.
CloseButton(a) ==
  /\ CanStart
  /\ LET r == NewRequest("close_button", a, FALSE)
     IN reqs' = Append(reqs,
          IF ~ canManageTicket(a, channel) THEN Answer(r, "not_allowed")
          ELSE [r EXCEPT !.pc = "closeTicket", !.reply = "closing"])
  /\ UNCHANGED <<channel, creation, events, timers>>
  /\ NoPremCall
  /\ TicketFrame

\* closeTicket up to the end of sendLog: the "Ticket Closed" log.
CloseSendLog(i) ==
  /\ reqs[i].pc = "closeTicket"
  /\ events' = events \o sendLog("log_closed", i)
  /\ reqs' = [reqs EXCEPT ![i].pc = "transcript"]
  /\ UNCHANGED <<channel, creation, timers>>
  /\ NoPremCall
  /\ TicketFrame

\* sendTranscriptIfEnabled: premium guilds with the transcripts feature
\* and a text channel to send to.
CloseTranscript(i) ==
  /\ reqs[i].pc = "transcript"
  /\ LET p == GetPremiumState(PREMIUM_GUILDS, diskPremiumGuilds, DISK_FULL, TicketGuild)
         cfg == getGuildConfig(TicketGuild)
         send == /\ p.view.isPremium
                 /\ p.view.features.transcripts
                 /\ Truthy(cfg.logChannelId)
                 /\ PlatformType(cfg.logChannelId[1]) = "text"
     IN /\ PremiumBecomes(p)
        /\ events' = IF send THEN Append(events, Event("transcript", i)) ELSE events
  /\ reqs' = [reqs EXCEPT ![i].pc = "notice"]
  /\ UNCHANGED <<channel, creation, timers>>
  /\ TicketFrame

\* The closing notice completes (or fails on a deleted channel) and the
\* deletion is scheduled after the grace delay.
CloseNotice(i) ==
  /\ reqs[i].pc = "notice"
  /\ events' = IF channel.exists THEN Append(events, Event("notice", i)) ELSE events
  /\ timers' = timers \cup {[kind |-> "delete", req |-> i, due |-> now + GraceMs]}
  /\ reqs' = [reqs EXCEPT ![i].pc = "done"]
  /\ UNCHANGED <<channel, creation>>
  /\ NoPremCall
  /\ TicketFrame

ChannelFetchedFromCache(ch) == TRUE

\* const ch = await guild.channels.fetch(channel.id).catch(() => null):
\* whether ch is a channel.
ChannelFetched(ch) == ch.exists

\* A timer callback: channel.delete() after the grace delay, or the
\* auto-close of a channel that still exists, run by the bot itself.
TimerFire(t) ==
  /\ t \in timers
  /\ t.due <= now
  /\ timers' = timers \ {t}
  /\ IF t.kind = "delete"
     THEN /\ channel' = [channel EXCEPT !.exists = FALSE]
          /\ events' = IF channel.exists THEN Append(events, Event("deleted", t.req)) ELSE events
          /\ UNCHANGED reqs
     ELSE /\ reqs' = IF ChannelFetched(channel)
                     THEN Append(reqs, [NewRequest("auto_close", "bot", TRUE) EXCEPT !.pc = "closeTicket"])
                     ELSE reqs
          /\ UNCHANGED <<channel, events>>
  /\ UNCHANGED creation
  /\ NoPremCall
  /\ TicketFrame

\* Time passes until the next timer is due.
TicketTick ==
  /\ timers # {}
  /\ \A t \in timers : t.due > now
  /\ \E t \in timers :
       /\ \A u \in timers : t.due <= u.due
       /\ now' = t.due
  /\ UNCHANGED <<store, cfgVars, premVars, ticketVars>>

\* ---------------------------------------------------------------------
\* Specification of one ticket channel from creation to deletion
\* ---------------------------------------------------------------------
\* A guild set up for both ticket types, with or without a log channel.
TicketStored ==
  [EmptyObject EXCEPT !.supportCategoryId = Some("C2"),
                      !.mmCategoryId = Some("C1"),
                      !.supportRoles = Some(<<"R2">>),
                      !.mmRoles = Some(<<"R1">>),
                      !.adminRoles = Some(<<"R3">>)]

TicketConfigs == {TicketStored, [TicketStored EXCEPT !.logChannelId = Some("L1")]}

\* A grant without expiry that uses the premium ticket features.
TicketGrant ==
  [ LifetimeGrant EXCEPT
      !.features = Some([NoFeatures EXCEPT !.autoTagClaims = Some(TRUE),
                                           !.transcripts = Some(TRUE)]) ]

\* The same grant with the auto-close feature set to one minute.
AutoCloseGrant ==
  [ TicketGrant EXCEPT
      !.features = Some([TicketGrant.features[1] EXCEPT !.autoCloseMinutes = Some(1)]) ]

TicketPremium == {NoPremium, TicketGrant}

InitTicket ==
  /\ now = 0
  /\ store = "ok"
  /\ DISK_FULL = FALSE
  /\ \E c \in TicketConfigs :
       GUILD_CONFIGS = [g \in Guilds |-> IF g = TicketGuild THEN c ELSE EmptyObject]
  /\ cfgSaveTimer = Undefined
  /\ cfgDirty = FALSE
  /\ cfgWrites = <<>>
  /\ cfgTmp = Undefined
  /\ diskGuildConfigs = GUILD_CONFIGS
  /\ cfgBase = GUILD_CONFIGS
  /\ cfgHist = [g \in Guilds |-> <<>>]
  /\ cfgLog = <<>>
  /\ \E p \in TicketPremium :
       PREMIUM_GUILDS = [g \in Guilds |-> IF g = TicketGuild THEN p ELSE NoPremium]
  /\ PREMIUM_KEYS = [k \in KeyNames |-> Undefined]
  /\ diskPremiumGuilds = PREMIUM_GUILDS
  /\ diskPremiumKeys = PREMIUM_KEYS
  /\ REQUIRE_PREMIUM = FALSE
  /\ premOp = NoPremOp
  /\ TicketIdle

Openers == {"U1"}

\* The members who make each kind of request.
ClaimActors == {"S1", "S2", "U1"}
UnclaimActors == Actors
CloseActors == {"S1", "U1"}

CreationSteps ==
  \/ \E u \in Openers, type \in TicketTypes : ModalSubmit(u, type)
  \/ CreateEnsure
  \/ \E ok \in BOOLEAN : CreateChannel(ok)
  \/ CreateTopicDone
  \/ CreateMessages
  \/ CreateLog

NextTicket ==
  \/ CreationSteps
  \/ \E a \in ClaimActors : ClaimButton(a)
  \/ \E i \in DOMAIN reqs : ClaimButtonCheck(i)
  \/ \E i \in DOMAIN reqs : ClaimButtonTopicDone(i)
  \/ \E i \in DOMAIN reqs : ClaimButtonFinish(i)
  \/ \E a \in ClaimActors : Claim(a)
  \/ \E a \in UnclaimActors : Unclaim(a)
  \/ \E i \in DOMAIN reqs : CommandTopicDone(i)
  \/ \E i \in DOMAIN reqs : CommandNameDone(i)
  \/ \E a \in CloseActors : Close(a, TRUE)
  \/ \E a \in CloseActors : CloseButton(a)
  \/ \E i \in DOMAIN reqs : CloseSendLog(i)
  \/ \E i \in DOMAIN reqs : CloseTranscript(i)
  \/ \E i \in DOMAIN reqs : CloseNotice(i)
  \/ \E t \in timers : TimerFire(t)
  \/ TicketTick

SpecTicket == InitTicket /\ [][NextTicket]_vars

\* The same handlers with a platform that may reject the first setTopic.
NextOpened == NextTicket \/ CreateTopicRejected

SpecOpened == InitTicket /\ [][NextOpened]_vars

\* ---------------------------------------------------------------------
\* Specification of ticket creation while the owner changes the setup
\* ---------------------------------------------------------------------
\* Stored records at start: nothing configured, both types configured,
\* both switched off explicitly, a trade category that is not a category,
\* and logs switched on with a log channel that is not a text channel.
CreateConfigs ==
  { EmptyObject,
    TicketStored,
    [TicketStored EXCEPT !.supportEnabled = Some(FALSE), !.tradeEnabled = Some(FALSE)],
    [TicketStored EXCEPT !.mmCategoryId = Some("L1")],
    [TicketStored EXCEPT !.logChannelId = Some("C2")] }

InitCreate ==
  /\ now = 0
  /\ store = "ok"
  /\ DISK_FULL = FALSE
  /\ \E c \in CreateConfigs :
       GUILD_CONFIGS = [g \in Guilds |-> IF g = TicketGuild THEN c ELSE EmptyObject]
  /\ cfgSaveTimer = Undefined
  /\ cfgDirty = FALSE
  /\ cfgWrites = <<>>
  /\ cfgTmp = Undefined
  /\ diskGuildConfigs = GUILD_CONFIGS
  /\ cfgBase = GUILD_CONFIGS
  /\ cfgHist = [g \in Guilds |-> <<>>]
  /\ cfgLog = <<>>
  /\ \E p \in {NoPremium, AutoCloseGrant} :
       PREMIUM_GUILDS = [g \in Guilds |-> IF g = TicketGuild THEN p ELSE NoPremium]
  /\ PREMIUM_KEYS = [k \in KeyNames |-> Undefined]
  /\ diskPremiumGuilds = PREMIUM_GUILDS
  /\ diskPremiumKeys = PREMIUM_KEYS
  /\ REQUIRE_PREMIUM = FALSE
  /\ premOp = NoPremOp
  /\ TicketIdle

NextCreate ==
  \/ CreationSteps
  \/ \E flag \in {"supportEnabled", "tradeEnabled"} : SetupToggle(TicketGuild, flag)
  \/ CfgSaveTimerFire
  \/ \E i \in 1..MaxSaves : CfgWriteFileDone(i)
  \/ \E i \in 1..MaxSaves : CfgRenameDone(i)
  \/ \E d \in CfgTickSteps : CfgTick(d)

SpecCreate == InitCreate /\ [][NextCreate]_vars

\* ---------------------------------------------------------------------
\* Specifications of requests in a ticket channel that already exists
\* ---------------------------------------------------------------------
\* A ticket opened by U1 some time ago: the creation handler has finished,
\* the channel is on the platform, and the observation starts here.
ExistingTicket(cfgs, prems, chans, pending) ==
  /\ now = 0
  /\ store = "ok"
  /\ DISK_FULL = FALSE
  /\ \E c \in cfgs :
       GUILD_CONFIGS = [g \in Guilds |-> IF g = TicketGuild THEN c ELSE EmptyObject]
  /\ cfgSaveTimer = Undefined
  /\ cfgDirty = FALSE
  /\ cfgWrites = <<>>
  /\ cfgTmp = Undefined
  /\ diskGuildConfigs = GUILD_CONFIGS
  /\ cfgBase = GUILD_CONFIGS
  /\ cfgHist = [g \in Guilds |-> <<>>]
  /\ cfgLog = <<>>
  /\ \E p \in prems :
       PREMIUM_GUILDS = [g \in Guilds |-> IF g = TicketGuild THEN p ELSE NoPremium]
  /\ PREMIUM_KEYS = [k \in KeyNames |-> Undefined]
  /\ diskPremiumGuilds = PREMIUM_GUILDS
  /\ diskPremiumKeys = PREMIUM_KEYS
  /\ REQUIRE_PREMIUM = FALSE
  /\ premOp = NoPremOp
  /\ channel \in chans
  /\ creation = [NoCreation EXCEPT !.pc = "done", !.user = "U1", !.type = "Trade",
                                   !.reply = "created"]
  /\ reqs = <<>>
  /\ events = <<>>
  /\ timers \in pending
  /\ RatingIdle
  /\ panels = {}

OpenChannel(parentId, claimerId) ==
  [ exists |-> TRUE, parentId |-> parentId, topic |-> makeTopic("U1", claimerId),
    name |-> <<"ticket", "U1">>,
    overwrites |-> TicketOverwrites("U1", "Trade", getGuildConfigOf(TicketStored)) ]

\* Who may manage which channel.  The guild has both categories, or only
\* one of them, configured; the channel sits in the trade category C1, in
\* the support category C2, in another category C9, or (moved there by a
\* moderator of the guild) in no category at all.
AuthConfigs ==
  { TicketStored,
    [TicketStored EXCEPT !.supportCategoryId = Undefined],
    [TicketStored EXCEPT !.mmCategoryId = Undefined] }

AuthParents == {"C1", "C2", "C9", Null}

AuthActors == Actors \cup {GuildOwnerId} \cup OWNER_IDS

InitAuth ==
  ExistingTicket(AuthConfigs, {NoPremium},
                 {OpenChannel(par, cl) : par \in AuthParents, cl \in {Null, "S2"}}, {{}})

NextAuth ==
  \/ \E a \in AuthActors : Claim(a)
  \/ \E a \in AuthActors : Unclaim(a)
  \/ \E a \in AuthActors : CloseButton(a)
  \/ \E i \in DOMAIN reqs : CommandTopicDone(i)
  \/ \E i \in DOMAIN reqs : CloseSendLog(i)
  \/ \E i \in DOMAIN reqs : CloseTranscript(i)
  \/ \E i \in DOMAIN reqs : CloseNotice(i)
  \/ \E t \in timers : TimerFire(t)
  \/ TicketTick

SpecAuth == InitAuth /\ [][NextAuth]_vars

\* ---------------------------------------------------------------------
\* Closing with platform calls that fail
\* ---------------------------------------------------------------------
\* Submit of the modal opened by the close_with_reason button.
CloseReasonModal(a) ==
  /\ CanStart
  /\ LET r == NewRequest("close_modal", a, TRUE)
     IN reqs' = Append(reqs,
          IF ~ canManageTicket(a, channel) THEN Answer(r, "not_allowed")
          ELSE [r EXCEPT !.pc = "closeTicket", !.reply = "closing"])
  /\ UNCHANGED <<channel, creation, events, timers>>
  /\ NoPremCall
  /\ TicketFrame

\* closeTicket builds the log embed with the reason as a field value.  The
\* embed builder rejects a field value longer than 1024 characters by
\* throwing; the reason option of /close and the text input of the modal
\* set no maximum length.  The exception leaves closeTicket before its
\* first platform call and is swallowed by the caller's catch.
CloseEmbedRejected(i) ==
  /\ reqs[i].pc = "closeTicket"
  /\ reqs[i].kind \in {"close", "close_modal"}
  /\ reqs[i].reason
  /\ events' = Append(events, Event("close_threw", i))
  /\ reqs' = [reqs EXCEPT ![i].pc = "done"]
  /\ UNCHANGED <<channel, creation, timers>>
  /\ NoPremCall
  /\ TicketFrame

\* sendLog: logCh.send is rejected; the rejection is caught.
CloseSendLogFails(i) ==
  /\ reqs[i].pc = "closeTicket"
  /\ LogSendable
  /\ events' = Append(events, Event("log_closed_failed", i))
  /\ reqs' = [reqs EXCEPT ![i].pc = "transcript"]
  /\ UNCHANGED <<channel, creation, timers>>
  /\ NoPremCall
  /\ TicketFrame

\* The guild sends transcripts: premium with the transcripts feature and a
\* text channel to send them to.
TranscriptDue(view) ==
  LET cfg == getGuildConfig(TicketGuild)
  IN /\ view.isPremium
     /\ view.features.transcripts
     /\ Truthy(cfg.logChannelId)
     /\ PlatformType(cfg.logChannelId[1]) = "text"

TranscriptFailures == {"fetch", "post"}

\* sendTranscriptIfEnabled with a failing call: when channel.messages.fetch
\* is rejected the transcript is posted without the messages; when
\* dest.send is rejected nothing is posted.  Both rejections are caught.
CloseTranscriptFails(i, how) ==
  /\ reqs[i].pc = "transcript"
  /\ LET p == GetPremiumState(PREMIUM_GUILDS, diskPremiumGuilds, DISK_FULL, TicketGuild)
     IN /\ TranscriptDue(p.view)
        /\ PremiumBecomes(p)
  /\ events' = Append(events, Event(IF how = "fetch" THEN "transcript_unfetched"
                                    ELSE "transcript_failed", i))
  /\ reqs' = [reqs EXCEPT ![i].pc = "notice"]
  /\ UNCHANGED <<channel, creation, timers>>
  /\ TicketFrame

\* What a call continues with after an awaited promise was rejected.
Propagated(continued, abandoned) == abandoned

\* promise.catch(() => {}): the rejection is swallowed and the caller
\* continues with the next statement.
Swallowed(continued, abandoned) == continued

\* The closing notice is rejected although the channel exists; the
\* deletion is scheduled all the same.
CloseNoticeFails(i) ==
  /\ reqs[i].pc = "notice"
  /\ channel.exists
  /\ events' = Append(events, Event("notice_failed", i))
  /\ timers' = Swallowed(timers \cup {[kind |-> "delete", req |-> i, due |-> now + GraceMs]},
                         timers)
  /\ reqs' = [reqs EXCEPT ![i].pc = "done"]
  /\ UNCHANGED <<channel, creation>>
  /\ NoPremCall
  /\ TicketFrame

\* The staff member who closes: S1 is trade staff and the ticket lies in
\* the trade category.
Closers == {"S1"}

CloseChannels == {OpenChannel("C1", "S1"), OpenChannel("C1", Null)}

CloseRequests ==
  \/ \E a \in Closers, reason \in BOOLEAN : Close(a, reason)
  \/ \E a \in Closers : CloseButton(a)
  \/ \E a \in Closers : CloseReasonModal(a)

\* One call of closeTicket, followed through every outcome of its
\* platform calls.
InitClose == ExistingTicket(TicketConfigs, TicketPremium, CloseChannels, {{}})

NextClose ==
  \/ reqs = <<>> /\ CloseRequests
  \/ \E i \in DOMAIN reqs : CloseEmbedRejected(i)
  \/ \E i \in DOMAIN reqs : CloseSendLog(i)
  \/ \E i \in DOMAIN reqs : CloseSendLogFails(i)
  \/ \E i \in DOMAIN reqs : CloseTranscript(i)
  \/ \E i \in DOMAIN reqs, how \in TranscriptFailures : CloseTranscriptFails(i, how)
  \/ \E i \in DOMAIN reqs : CloseNotice(i)
  \/ \E i \in DOMAIN reqs : CloseNoticeFails(i)
  \/ \E t \in timers : TimerFire(t)
  \/ TicketTick

SpecClose == InitClose /\ [][NextClose]_vars

\* The auto-close timer armed when the ticket was created.
AutoCloseTimer == [kind |-> "auto_close", req |-> 0, due |-> 1 * MinuteMs]

\* Close requests and the auto-close timer with a platform that works.
InitFairClose ==
  ExistingTicket({TicketStored}, {NoPremium}, {OpenChannel("C1", "S1")},
                 {{}, {AutoCloseTimer}})

CloseTicketSteps ==
  \/ \E i \in DOMAIN reqs : CloseEmbedRejected(i)
  \/ \E i \in DOMAIN reqs : CloseSendLog(i)
  \/ \E i \in DOMAIN reqs : CloseTranscript(i)
  \/ \E i \in DOMAIN reqs : CloseNotice(i)

NextFairClose ==
  \/ CloseRequests
  \/ CloseTicketSteps
  \/ \E t \in timers : TimerFire(t)
  \/ TicketTick

\* Every awaited call settles, every due timer callback runs and time
\* passes; nobody is obliged to make a request.
FairClose ==
  /\ InitFairClose
  /\ [][NextFairClose]_vars
  /\ WF_vars(CloseTicketSteps)
  /\ WF_vars(\E t \in timers : TimerFire(t))
  /\ WF_vars(TicketTick)

\* A ticket of a premium guild whose auto-close timer is pending: the
\* staff may close it first, so that the timer, or the deletion scheduled
\* by a second close, finds the channel gone.
InitGone ==
  ExistingTicket({TicketStored}, {TicketGrant}, {OpenChannel("C1", "S1")},
                 {{AutoCloseTimer}})

NextGone ==
  \/ \E a \in Closers : CloseButton(a)
  \/ \E i \in DOMAIN reqs : CloseSendLog(i)
  \/ \E i \in DOMAIN reqs : CloseTranscript(i)
  \/ \E i \in DOMAIN reqs : CloseNotice(i)
  \/ \E t \in timers : TimerFire(t)
  \/ TicketTick

SpecGone == InitGone /\ [][NextGone]_vars

\* Ticket creation in guilds whose role lists overlap, repeat a role and
\* name a role that the guild no longer has.
AccessConfigs ==
  { TicketStored,
    [TicketStored EXCEPT !.supportRoles = Some(<<"R2", "R9", "R2">>),
                         !.adminRoles = Some(<<"R3", "R2">>)],
    [TicketStored EXCEPT !.mmRoles = Some(<<"R9">>), !.adminRoles = Some(<<>>)],
    [TicketStored EXCEPT !.supportRoles = Some(<<>>), !.mmRoles = Some(<<"R1", "R2">>),
                         !.logChannelId = Some("L1")] }

InitAccess ==
  /\ now = 0
  /\ store = "ok"
  /\ DISK_FULL = FALSE
  /\ \E c \in AccessConfigs :
       GUILD_CONFIGS = [g \in Guilds |-> IF g = TicketGuild THEN c ELSE EmptyObject]
  /\ cfgSaveTimer = Undefined
  /\ cfgDirty = FALSE
  /\ cfgWrites = <<>>
  /\ cfgTmp = Undefined
  /\ diskGuildConfigs = GUILD_CONFIGS
  /\ cfgBase = GUILD_CONFIGS
  /\ cfgHist = [g \in Guilds |-> <<>>]
  /\ cfgLog = <<>>
  /\ \E p \in {NoPremium, TicketGrant, AutoCloseGrant} :
       PREMIUM_GUILDS = [g \in Guilds |-> IF g = TicketGuild THEN p ELSE NoPremium]
  /\ PREMIUM_KEYS = [k \in KeyNames |-> Undefined]
  /\ diskPremiumGuilds = PREMIUM_GUILDS
  /\ diskPremiumKeys = PREMIUM_KEYS
  /\ REQUIRE_PREMIUM = FALSE
  /\ premOp = NoPremOp
  /\ TicketIdle

SpecAccess == InitAccess /\ [][CreationSteps]_vars

\* ---------------------------------------------------------------------
\* Claim and unclaim while the premium features change
\* ---------------------------------------------------------------------
\* The ticket grant with an expiry one second after the start.
ExpiringTagGrant == [TicketGrant EXCEPT !.expiresAt = Some(ToISOString(1000))]

InitUntag ==
  ExistingTicket({TicketStored}, {TicketGrant, ExpiringTagGrant},
                 {OpenChannel("C1", Null)}, {{}})

TagActors == {"S1", "A1"}

\* /claim and /unclaim by staff while the owner toggles autoTagClaims and
\* time passes the expiry of the grant.
NextUntag ==
  \/ \E a \in TagActors : Claim(a)
  \/ \E a \in TagActors : Unclaim(a)
  \/ \E i \in DOMAIN reqs : CommandTopicDone(i)
  \/ \E i \in DOMAIN reqs : CommandNameDone(i)
  \/ PremToggleClaim(TicketGuild)
  \/ \E d \in PremTickSteps : PremTick(d)

SpecUntag == InitUntag /\ [][NextUntag]_vars

\* ---------------------------------------------------------------------
\* The setup panel
\* ---------------------------------------------------------------------
\* canUseSetup(member)
canUseSetup(member) ==
  isBotOwner(member) \/ member = GuildOwnerId \/ isAdmin(member)

SetupFrame ==
  UNCHANGED <<store, premVars, channel, creation, reqs, events, timers, ratingVars>>

NoConfigChange ==
  UNCHANGED <<now, GUILD_CONFIGS, cfgSaveTimer, cfgDirty, cfgWrites, cfgTmp,
              diskGuildConfigs, DISK_FULL, cfgBase, cfgHist, cfgLog>>

\* ?setup by member a: the panel is sent when canUseSetup(a) holds; its
\* components carry a's id.
SetupCommand(a) ==
  /\ a \notin panels
  /\ panels' = IF canUseSetup(a) THEN panels \cup {a} ELSE panels
  /\ NoConfigChange
  /\ SetupFrame

\* A component of the panel opened by ownerId is used by member a: the
\* handler compares interaction.user.id with ownerId and then saves.
SetupInteraction(a, ownerId, patch) ==
  /\ ownerId \in panels
  /\ SavesDone < MaxSaves
  /\ UNCHANGED <<now, panels>>
  /\ SetupFrame
  /\ IF a # ownerId
     THEN UNCHANGED cfgVars
     ELSE saveGuildConfig(TicketGuild, patch)

SetupFlags == {"supportEnabled", "tradeEnabled", "logsEnabled"}

\* setup_toggle_support / setup_toggle_trade / setup_toggle_logs
SetupToggleBy(a, ownerId, flag) ==
  SetupInteraction(a, ownerId, P1(flag, ~ getGuildConfig(TicketGuild)[flag][1]))

\* setup_pick_support / setup_pick_mm / setup_pick_log
SetupPickChannel(a, ownerId, field, picked) ==
  SetupInteraction(a, ownerId, P1(field, picked))

\* setup_pick_roles:<ownerId>:<which>
SetupPickRoles(a, ownerId, field, values) ==
  SetupInteraction(a, ownerId, P1(field, FilterSnowflakes(values)))

SetupActors == {"A1", "S1", GuildOwnerId}
RolePicks == {<<>>, <<"R1">>}

NextSetup ==
  \/ \E a \in SetupActors : SetupCommand(a)
  \/ \E a \in SetupActors, o \in panels, flag \in SetupFlags : SetupToggleBy(a, o, flag)
  \/ \E a \in SetupActors, o \in panels : SetupPickChannel(a, o, "logChannelId", "L1")
  \/ \E a \in SetupActors, o \in panels, field \in {"adminRoles", "supportRoles"},
         values \in RolePicks : SetupPickRoles(a, o, field, values)
  \/ CfgSaveTimerFire
  \/ \E i \in DOMAIN cfgWrites : CfgWriteFileDone(i)
  \/ \E i \in DOMAIN cfgWrites : CfgRenameDone(i)
  \/ \E d \in CfgTickSteps : CfgTick(d)

SpecSetup == InitTicket /\ [][NextSetup]_vars

\* ---------------------------------------------------------------------
\* Ratings
\* ---------------------------------------------------------------------
\* Closed tickets whose summary DM, with its rating buttons, reached the
\* opener: T1 and T2 were both opened by U1, T3 by U2.
RatedTickets == {"T1", "T2", "T3"}

TicketOpener == [t \in RatedTickets |-> IF t = "T3" THEN "U2" ELSE "U1"]
TicketClaimer == [t \in RatedTickets |-> IF t = "T2" THEN "S2" ELSE "S1"]
Username == [u \in {"U1", "U2"} |-> IF u = "U1" THEN "alice" ELSE "bob"]

\* ticketNameStub of dmSummaryAndRating: `ticket-${opener.username}`.
ticketNameStub(t) == <<"ticket", Username[TicketOpener[t]]>>

RateKinds == {"trade", "service"}
Scores == {1, 5}

\* `${ticketName}_${interaction.user.id}_mm` and `..._service`
RatedKey(ticketName, userId, kind) ==
  <<ticketName, userId, IF kind = "trade" THEN "mm" ELSE "service">>

RECURSIVE SumOf(_)
SumOf(scores) == IF scores = <<>> THEN 0 ELSE Head(scores) + SumOf(Tail(scores))

\* +(sum / count).toFixed(2), in hundredths.
ToFixed2(sum, count) == (2 * 100 * sum + count) \div (2 * count)

\* The ledger entry after reviews.push(score); avg is in hundredths.
addReview(entry, score) ==
  LET reviews == Append(IF IsDefined(entry) THEN entry[1].reviews ELSE <<>>, score)
  IN Some([reviews |-> reviews, count |-> Len(reviews),
           avg |-> ToFixed2(SumOf(reviews), Len(reviews))])

addReviewForStaff(staffId, score) ==
  [REVIEWS EXCEPT !.trade[staffId] = addReview(@, score)]

addReviewForService(score) ==
  [REVIEWS EXCEPT !.service = addReview(@, score)]

\* A rate: button of the DM about ticket t pressed by its recipient: the
\* check of RATED, the ledger update and the marking run without
\* suspension.
RateButton(t, kind, score) ==
  /\ Len(rateLog) <= MaxOps
  /\ LET rater == TicketOpener[t]
         key == RatedKey(ticketNameStub(t), rater, kind)
         entry == [ticket |-> t, rater |-> rater, kind |-> kind, score |-> score,
                   accepted |-> key \notin RATED]
     IN IF key \in RATED
        THEN /\ rateLog' = Append(rateLog, entry)
             /\ UNCHANGED <<REVIEWS, RATED, diskReviews, diskRated, DISK_FULL>>
        ELSE /\ REVIEWS' = IF kind = "trade"
                           THEN addReviewForStaff(TicketClaimer[t], score)
                           ELSE addReviewForService(score)
             /\ RATED' = RATED \cup {key}
             /\ diskReviews' = DiskAfterWrite(diskReviews, REVIEWS')
             /\ diskRated' = DiskAfterWrite(diskRated, RATED')
             /\ DISK_FULL' = DiskFullAfterWrite(DiskFullAfterWrite(DISK_FULL))
             /\ rateLog' = Append(rateLog, entry)
  /\ UNCHANGED <<now, store, GUILD_CONFIGS, cfgSaveTimer, cfgDirty, cfgWrites, cfgTmp,
                 diskGuildConfigs, cfgBase, cfgHist, cfgLog, premVars,
                 channel, creation, reqs, events, timers, panels>>

NextRate == \E t \in RatedTickets, kind \in RateKinds, score \in Scores : RateButton(t, kind, score)

SpecRate == InitDuration /\ [][NextRate]_vars

\* ---------------------------------------------------------------------
\* Properties of the guild configuration
\* ---------------------------------------------------------------------
PatchKeys(patch) == {f \in CfgFields : IsDefined(patch[f])}

NeverToggled(g) ==
  /\ \A f \in EnabledFields : ~ IsDefined(cfgBase[g][f])
  /\ \A i \in 1..Len(cfgHist[g]) : PatchKeys(cfgHist[g][i]) \cap EnabledFields = {}

\* C9: after saveGuildConfig(g, P1) and then saveGuildConfig(g, P2) on a
\* stored configuration C, getGuildConfig(g) equals the field-by-field
\* merge {...C, ...P1, ...P2} read through getGuildConfig, and when P1 and
\* P2 name disjoint fields both application orders give the same result.
C9_ConfigMergeAsClaimed ==
  \A g \in Guilds :
    Len(cfgHist[g]) = 2 =>
      LET C == cfgBase[g]
          A == cfgHist[g][1]
          B == cfgHist[g][2]
      IN /\ getGuildConfig(g) = getGuildConfigOf(Spread(Spread(C, A), B))
         /\ (PatchKeys(A) \cap PatchKeys(B) = {}) =>
              getGuildConfig(g) =
                getGuildConfigOf(NextStoredConfig(NextStoredConfig(C, B), A))

\* C10: for a guild that never toggled a feature explicitly, a save whose
\* patch names no enabled flag stores no enabled flag, so each flag read
\* through getGuildConfig is true exactly when its identifier is set.
C10_FlagsDerivedAsClaimed ==
  \A g \in Guilds :
    NeverToggled(g) =>
      /\ \A f \in EnabledFields : ~ IsDefined(GUILD_CONFIGS[g][f])
      /\ getGuildConfig(g).supportEnabled[1] = Truthy(getGuildConfig(g).supportCategoryId)
      /\ getGuildConfig(g).tradeEnabled[1] = Truthy(getGuildConfig(g).mmCategoryId)
      /\ getGuildConfig(g).logsEnabled[1] = Truthy(getGuildConfig(g).logChannelId)

\* ---------------------------------------------------------------------
\* Properties of the premium entitlement and the license keys
\* ---------------------------------------------------------------------
PremCall == premOp'.n = premOp.n + 1
RedeemCall(g, key) ==
  PremCall /\ premOp'.op = "redeem" /\ premOp'.guild = g /\ premOp'.key = key
Activated(g, key) == RedeemCall(g, key) /\ premOp'.reply = "activated"
KeyUsed(key) == IsDefined(PREMIUM_KEYS[key]) /\ PREMIUM_KEYS[key][1].used

\* C2: redeeming a key that is already marked used is answered "already
\* used" and changes neither the key record nor any guild's premium state;
\* a used key stays used, and a guild's expiry is extended only by the
\* call that finds the key unused, so over any sequence of redemptions of
\* one key exactly the first one extends a guild's premium.
C2_KeySingleUse ==
  [][ \A key \in KeyNames :
        /\ \A g \in Guilds :
             /\ (RedeemCall(g, key) /\ KeyUsed(key)) =>
                  /\ premOp'.owner => premOp'.reply = "already_used"
                  /\ PREMIUM_KEYS' = PREMIUM_KEYS
                  /\ PREMIUM_GUILDS' = PREMIUM_GUILDS
             /\ (RedeemCall(g, key) /\ premOp'.owner
                   /\ IsDefined(PREMIUM_KEYS[key]) /\ ~ KeyUsed(key)) =>
                  /\ premOp'.reply = "activated"
                  /\ PREMIUM_KEYS'[key][1].used
                  /\ PREMIUM_KEYS'[key][1].usedByGuildId = Some(g)
             /\ Activated(g, key) => ~ KeyUsed(key)
        /\ KeyUsed(key) => PREMIUM_KEYS'[key] = PREMIUM_KEYS[key]
    ]_vars

C2_Witness ==
  /\ premOp.op = "redeem"
  /\ premOp.reply = "already_used"
  /\ premOp.guild = "G2"
  /\ PREMIUM_KEYS[premOp.key][1].usedByGuildId = Some("G1")
  /\ ~ IsDefined(PREMIUM_GUILDS["G2"].expiresAt)

\* C3: when an unused key of duration D is redeemed for a guild at time
\* now, the new expiresAt is the stored expiresAt + D when that lies after
\* now, and now + D when it is in the past or absent; isPremium becomes
\* true and an existing activatedAt is kept.
C3_RedeemExtends ==
  [][ \A g \in Guilds, key \in KeyNames :
        Activated(g, key) =>
          LET cur == PREMIUM_GUILDS[g]
              D == PREMIUM_KEYS[key][1].durationMs[1]
              later == IsDefined(cur.expiresAt) /\ DateParse(cur.expiresAt[1]) > now
              expected == IF later THEN DateParse(cur.expiresAt[1]) + D ELSE now + D
          IN /\ PREMIUM_GUILDS'[g].expiresAt = Some(ToISOString(expected))
             /\ PREMIUM_GUILDS'[g].isPremium = Some(TRUE)
             /\ IsDefined(cur.activatedAt) => PREMIUM_GUILDS'[g].activatedAt = cur.activatedAt
             /\ ~ IsDefined(cur.activatedAt) =>
                  PREMIUM_GUILDS'[g].activatedAt = Some(ToISOString(now))
    ]_vars

C3_Witness ==
  /\ premOp.op = "redeem"
  /\ premOp.reply = "activated"
  /\ premOp.guild = "G1"
  /\ now = 0
  /\ PREMIUM_GUILDS["G1"].expiresAt = Some(ToISOString(2000))
  /\ PREMIUM_GUILDS["G1"].isPremium = Some(TRUE)

\* Handlers that read the entitlement through getPremiumState.
ReadOps == {"help", "brandname", "toggle_claim"}

\* C4: for a guild whose stored expiresAt is earlier than now, a call of
\* getPremiumState returns isPremium = false and stores the demotion; and
\* a demoted guild stays demoted, with its expiry unchanged, through every
\* step that is not a new key redemption for that guild.
C4_ExpiryDemotion ==
  [][ \A g \in Guilds :
        /\ (PremCall /\ premOp'.op \in ReadOps /\ premOp'.guild = g /\ ExpiryPassed(g)) =>
             /\ premOp'.reply = "not_premium"
             /\ ~ IsTrue(PREMIUM_GUILDS'[g].isPremium)
             /\ ~ IsTrue(diskPremiumGuilds'[g].isPremium)
        /\ (ExpiryPassed(g) /\ ~ IsTrue(PREMIUM_GUILDS[g].isPremium)
              /\ ~ \E key \in KeyNames : Activated(g, key)) =>
             /\ ~ IsTrue(PREMIUM_GUILDS'[g].isPremium)
             /\ PREMIUM_GUILDS'[g].expiresAt = PREMIUM_GUILDS[g].expiresAt
    ]_vars

C4_Witness ==
  /\ premOp.n = 3
  /\ premOp.op = "help"
  /\ premOp.reply = "not_premium"
  /\ premOp.stale
  /\ PREMIUM_GUILDS[premOp.guild].isPremium = Some(FALSE)
  /\ IsDefined(PREMIUM_GUILDS[premOp.guild].branding)

\* Handlers whose effect is reserved to premium guilds.
GatedOps == {"brandname", "toggle_claim", "dash_branding", "dash_page"}
GatedEffects == {"saved", "edit_page_premium"}

\* C5: no premium-gated operation takes effect for a guild whose expiresAt
\* is earlier than the current time, even when getPremiumState has not
\* been called since the expiry.
C5_NoStaleEntitlementAsClaimed ==
  (premOp.op \in GatedOps /\ premOp.stale) => premOp.reply \notin GatedEffects

\* ---------------------------------------------------------------------
\* Properties of the ticket lifecycle
\* ---------------------------------------------------------------------
ClaimKinds == {"claim_button", "claim"}

\* C1: for an open, unclaimed ticket and two claim requests by two
\* different members who both pass canManageTicket, once both handlers
\* have finished exactly one was answered as a successful claim, the other
\* as already claimed, and the topic names the successful member.
C1_ClaimMutualExclusionAsClaimed ==
  ( /\ Len(reqs) = 2
    /\ \A i \in {1, 2} :
         /\ reqs[i].kind \in ClaimKinds
         /\ reqs[i].pc = "done"
         /\ canManageTicket(reqs[i].actor, channel)
    /\ reqs[1].actor # reqs[2].actor
    /\ channel.exists )
  => \E i \in {1, 2} :
       /\ reqs[i].reply = "claimed"
       /\ reqs[3 - i].reply = "already_claimed"
       /\ parseTopic(channel.topic).claimed = reqs[i].actor

UnclaimArrives ==
  /\ Len(reqs') = Len(reqs) + 1
  /\ reqs'[Len(reqs')].kind = "unclaim"
  /\ isTicketChannel(channel)

Rejected(r) == r.pc = "done" /\ r.reply \in {"not_allowed", "forbidden"}

\* When setTopic of an accepted /unclaim completes on an existing channel
\* the claimer is cleared and the opener kept.
UnclaimClears ==
  \A i \in DOMAIN reqs :
    ( /\ reqs[i].kind = "unclaim"
      /\ reqs[i].pc = "setTopic"
      /\ reqs'[i].pc # "setTopic"
      /\ channel.exists )
    => /\ parseTopic(channel'.topic).claimed = Null
       /\ parseTopic(channel'.topic).opened = parseTopic(channel.topic).opened

\* C6 as stated: /unclaim on a claimed ticket by a member who is neither
\* the claimer nor an admin is rejected and leaves topic and name
\* unchanged; by the claimer or an admin it clears the claimer; on an
\* unclaimed ticket it is rejected as not claimed and changes nothing.
C6_UnclaimAsClaimed ==
  [][ /\ UnclaimArrives =>
           LET r == reqs'[Len(reqs')]
               a == r.actor
               t == parseTopic(channel.topic)
           IN /\ (t.claimed # Null /\ t.claimed # a /\ ~ isAdmin(a)) =>
                   Rejected(r) /\ channel' = channel
              /\ (t.claimed # Null /\ (t.claimed = a \/ isAdmin(a))) =>
                   r.pc = "setTopic"
              /\ (t.claimed = Null) =>
                   r.pc = "done" /\ r.reply = "not_claimed" /\ channel' = channel
      /\ UnclaimClears
    ]_vars

\* C6: /unclaim by a member who does not pass canManageTicket is rejected
\* as not allowed, whatever the state of the ticket.  For a member who
\* passes it: on a claimed ticket a member who is neither the claimer nor
\* an admin is rejected as forbidden, the claimer or an admin clears the
\* claimer, and on an unclaimed ticket the request is rejected as not
\* claimed.  Every rejection leaves topic and name unchanged.
C6_UnclaimAuthorization ==
  [][ /\ UnclaimArrives =>
           LET r == reqs'[Len(reqs')]
               a == r.actor
               t == parseTopic(channel.topic)
               manage == canManageTicket(a, channel)
           IN /\ (t.claimed # Null /\ t.claimed # a /\ ~ isAdmin(a)) =>
                   Rejected(r) /\ channel' = channel
              /\ ~ manage =>
                   r.pc = "done" /\ r.reply = "not_allowed" /\ channel' = channel
              /\ (manage /\ t.claimed # Null /\ t.claimed # a /\ ~ isAdmin(a)) =>
                   r.reply = "forbidden"
              /\ (manage /\ t.claimed # Null /\ (t.claimed = a \/ isAdmin(a))) =>
                   r.pc = "setTopic"
              /\ (manage /\ t.claimed = Null) =>
                   r.pc = "done" /\ r.reply = "not_claimed" /\ channel' = channel
      /\ UnclaimClears
    ]_vars

C6_Witness ==
  \E i \in DOMAIN reqs :
    /\ reqs[i].kind = "unclaim"
    /\ reqs[i].reply = "forbidden"
    /\ canManageTicket(reqs[i].actor, channel)
    /\ channel.exists
    /\ parseTopic(channel.topic).claimed \notin {Null, reqs[i].actor}

DisabledReply(type) == IF type = "Support" THEN "SUPPORT_DISABLED" ELSE "TRADE_DISABLED"

NothingCreated == ~ channel.exists /\ events = <<>> /\ timers = {}

\* C7 as stated: whenever the effective supportEnabled (tradeEnabled) is
\* false at the time the support (trade) modal is submitted, the request
\* is answered with the disabled message and no channel is created, no
\* topic set, no ping or log sent and no auto-close timer scheduled.
C7_DisabledRejectionAsClaimed ==
  (creation.pc \notin {"idle", "deferred"} /\ ~ creation.enabledAtSubmit) =>
    /\ creation.reply = DisabledReply(creation.type)
    /\ NothingCreated

\* C7: whenever the effective supportEnabled (tradeEnabled) is false at
\* the time the handler reads the configuration, after its deferred reply
\* has been acknowledged, the request is answered with the disabled
\* message and no channel is created, no topic set, no ping or log sent
\* and no auto-close timer scheduled.
C7_DisabledRejection ==
  (creation.pc \notin {"idle", "deferred"} /\ ~ creation.enabledAtCheck) =>
    /\ creation.pc = "done"
    /\ creation.reply = DisabledReply(creation.type)
    /\ NothingCreated

C7_Witness ==
  /\ creation.pc = "done"
  /\ creation.type = "Trade"
  /\ creation.reply = "TRADE_DISABLED"
  /\ ~ creation.enabledAtCheck
  /\ getGuildConfig(TicketGuild).mmCategoryId = Some("C1")
  /\ PREMIUM_GUILDS[TicketGuild] = AutoCloseGrant
  /\ NothingCreated

\* Position of the first event ev of request req, 0 when there is none.
EventIndex(ev, req) ==
  LET hits == {k \in DOMAIN events : events[k].ev = ev /\ events[k].req = req}
  IN IF hits = {} THEN 0 ELSE CHOOSE k \in hits : \A j \in hits : k <= j

\* The scenario: trade enabled with category C1 and mmRoles = [R1]; U1
\* creates a trade ticket, then S1 claims it, then S1 closes it with a
\* reason, each request arriving after the one before has finished.
FlowGuild ==
  LET cfg == getGuildConfig(TicketGuild)
  IN /\ cfg.tradeEnabled[1]
     /\ cfg.mmCategoryId = Some("C1")
     /\ cfg.mmRoles = Some(<<"R1">>)

FlowCreated ==
  /\ creation.reply = "created"
  /\ creation.user = "U1"
  /\ creation.type = "Trade"
  /\ FlowGuild

FlowClaimed ==
  /\ Len(reqs) >= 1
  /\ reqs[1].kind \in ClaimKinds
  /\ reqs[1].actor = "S1"
  /\ reqs[1].pc = "done"
  /\ FlowCreated

FlowClosing ==
  /\ Len(reqs) = 2
  /\ reqs[2].kind = "close"
  /\ reqs[2].actor = "S1"
  /\ reqs[2].reason
  /\ reqs[2].afterOthers
  /\ FlowClaimed

FlowTopics ==
  /\ (reqs = <<>> /\ FlowCreated) =>
       /\ channel.exists
       /\ channel.parentId = "C1"
       /\ channel.topic = << <<"opened", "U1">>, <<"claimed", "null">> >>
  /\ (Len(reqs) = 1 /\ FlowClaimed) =>
       /\ reqs[1].reply = "claimed"
       /\ channel.topic = << <<"opened", "U1">>, <<"claimed", "S1">> >>

\* The closing notice is posted by the time closeTicket has finished, and
\* the channel is deleted only after the notice and the grace delay.
FlowNoticeThenDelete ==
  FlowClosing =>
    LET notice == EventIndex("notice", 2)
        deleted == EventIndex("deleted", 2)
    IN /\ reqs[2].pc = "done" => notice > 0
       /\ channel.exists <=> deleted = 0
       /\ deleted > 0 =>
            /\ 0 < notice /\ notice < deleted
            /\ events[deleted].at >= events[notice].at + GraceMs

WellFormedIds(list) == \A i \in 1..Len(list) : isValidSnowflake(list[i])

NoRepeats(list) == \A i, j \in 1..Len(list) : list[i] = list[j] => i = j

LastPatch(g) == cfgHist[g][Len(cfgHist[g])]

\* C11: each role list returned by getGuildConfig, and each role list
\* stored by a saveGuildConfig whose patch names it, holds only well-formed
\* numeric identifiers and holds no identifier more than once.
C11_RoleListsAreSetsAsClaimed ==
  \A g \in Guilds, f \in RoleFields :
    /\ WellFormedIds(getGuildConfig(g)[f][1])
    /\ NoRepeats(getGuildConfig(g)[f][1])
    /\ (Len(cfgHist[g]) > 0 /\ IsDefined(LastPatch(g)[f])) =>
         /\ WellFormedIds(GUILD_CONFIGS[g][f][1])
         /\ NoRepeats(GUILD_CONFIGS[g][f][1])

\* The window the configuration manager promises.
Window == 250

IsSaveAt(k) == k \in 1..Len(cfgLog) /\ cfgLog[k].ev = "save"

IsWriteAt(k) == k \in 1..Len(cfgLog) /\ cfgLog[k].ev = "write"

\* C12: a write of guildConfigs is started only by the call that ends a
\* burst: the event before it is a saveGuildConfig call at least one
\* window old, no second write follows without a new call, the written
\* document is the in-memory document left by that last call, and the
\* write of a finished burst is never late: time does not pass the end of
\* the window of the last call without the write having started.
C12_DebounceCoalescing ==
  /\ \A k \in 1..Len(cfgLog) :
       IsWriteAt(k) =>
         /\ IsSaveAt(k - 1)
         /\ cfgLog[k].at >= cfgLog[k - 1].at + Window
         /\ cfgLog[k].snap = cfgLog[k - 1].snap
  /\ IsSaveAt(Len(cfgLog)) => now <= cfgLog[Len(cfgLog)].at + Window

\* Two calls less than a window apart, changing the document, then one write.
C12_Witness ==
  /\ Len(cfgLog) = 3
  /\ IsSaveAt(1) /\ IsSaveAt(2) /\ IsWriteAt(3)
  /\ cfgLog[1].at < cfgLog[2].at
  /\ cfgLog[2].at < cfgLog[1].at + Window
  /\ cfgLog[1].snap # cfgLog[2].snap
  /\ cfgLog[3].snap = GUILD_CONFIGS

\* C14: every saveGuildConfig call has a write of guildConfigs started
\* within one window of the call: once more than a window has passed since
\* a call, the log holds a write started after it and no later than one
\* window after it.
C14_BoundedStalenessAsClaimed ==
  \A j \in 1..Len(cfgLog) :
    (IsSaveAt(j) /\ now > cfgLog[j].at + Window) =>
      \E k \in (j + 1)..Len(cfgLog) :
        /\ IsWriteAt(k)
        /\ cfgLog[k].at <= cfgLog[j].at + Window

\* A configuration write was skipped or failed for lack of capacity: the
\* flag is set, memory is ahead of the file, and neither a timer nor a
\* write is pending.
WriteGaveUp ==
  /\ DISK_FULL
  /\ ~ IsDefined(cfgSaveTimer)
  /\ cfgWrites = <<>>
  /\ diskGuildConfigs # GUILD_CONFIGS

\* C13: after a configuration write was skipped or failed for lack of
\* capacity, once the file system works again the in-memory guildConfigs
\* document eventually reaches the file (unless the file system stops
\* working again first), with no saveGuildConfig call being required.
C13_CapacityRetryAsClaimed ==
  (WriteGaveUp /\ store = "ok") ~> (diskGuildConfigs = GUILD_CONFIGS \/ store # "ok")

\* ---------------------------------------------------------------------
\* Properties of the document writers
\* ---------------------------------------------------------------------
\* C15: a write that fails leaves the target file with its previous
\* content: while the file system does not work, no step changes the
\* content of guildConfigs, premiumGuilds or premiumKeys on disk, and a
\* saveGuildConfig call made meanwhile still changes the memory as its
\* patch says.
C15_CrashSafeWritesAsClaimed ==
  [][ store # "ok" =>
        /\ diskGuildConfigs' = diskGuildConfigs
        /\ diskPremiumGuilds' = diskPremiumGuilds
        /\ diskPremiumKeys' = diskPremiumKeys ]_vars

\* ---------------------------------------------------------------------
\* Properties of the authorization checks
\* ---------------------------------------------------------------------
\* The request passed the canManageTicket check of its handler.
PassedCheck(r) ==
  /\ r.kind \in {"claim", "unclaim", "close", "close_button", "claim_button"}
  /\ r.pc # "start"
  /\ r.pc # "deferred"
  /\ r.reply \notin {"not_allowed", "not_ticket"}

AdminAsClaimed(a) ==
  \/ a = GuildOwnerId
  \/ isBotOwner(a)
  \/ HasRoleIn(a, getGuildConfig(TicketGuild).adminRoles[1])

\* C16: for every member who makes a request, isAdmin is true exactly when
\* the member is the guild owner, a bot owner or holds a configured admin
\* role; hence no claim, unclaim or close request of such a member is
\* answered "not allowed".
C16_IsAdminAsClaimed ==
  \A i \in DOMAIN reqs :
    LET a == reqs[i].actor
    IN /\ isAdmin(a) <=> AdminAsClaimed(a)
       /\ (AdminAsClaimed(a) /\ reqs[i].kind # "auto_close") => reqs[i].reply # "not_allowed"

\* C17: a non-admin whose request passed canManageTicket is support staff
\* in a channel whose parent is the configured support category, or
\* support or trade staff in a channel whose parent is the configured
\* trade category; a category that is not set matches no channel.
C17_CanManageTicketAsClaimed ==
  \A i \in DOMAIN reqs :
    LET a == reqs[i].actor
        cfg == getGuildConfig(TicketGuild)
    IN (PassedCheck(reqs[i]) /\ ~ isAdmin(a)) =>
         \/ /\ Truthy(cfg.supportCategoryId)
            /\ channel.parentId = cfg.supportCategoryId[1]
            /\ isSupport(a)
         \/ /\ Truthy(cfg.mmCategoryId)
            /\ channel.parentId = cfg.mmCategoryId[1]
            /\ (isSupport(a) \/ isTradeStaff(a))

\* ---------------------------------------------------------------------
\* Properties of closing
\* ---------------------------------------------------------------------
Attempted(evs, i) ==
  \E k \in 1..Len(events) : events[k].req = i /\ events[k].ev \in evs

\* closeTicket of request i got past the construction of its embed.
CloseRuns(i) ==
  /\ reqs[i].kind \in {"close", "close_button", "close_modal", "auto_close"}
  /\ reqs[i].pc \in {"transcript", "notice", "done"}
  /\ reqs[i].reply \notin {"not_allowed", "not_ticket"}
  /\ ~ Attempted({"close_threw"}, i)

DeleteScheduled(i) ==
  \/ \E t \in timers : t.kind = "delete" /\ t.req = i
  \/ Attempted({"deleted"}, i)

CloseEntered(i) ==
  /\ reqs[i].kind \in {"close", "close_button", "close_modal", "auto_close"}
  /\ reqs[i].pc \in {"closeTicket", "transcript", "notice", "done"}
  /\ reqs[i].reply \notin {"not_allowed", "not_ticket"}

\* C19: a claim or unclaim request that arrives after closeTicket was
\* entered on the ticket is never carried out: it does not get as far as
\* writing the topic or the name and is not answered as claimed or
\* unclaimed.
C19_ClosedIsTerminalAsClaimed ==
  \A i, j \in DOMAIN reqs :
    (i < j /\ CloseEntered(i) /\ reqs[j].kind \in {"claim", "claim_button", "unclaim"}) =>
      /\ reqs[j].pc \notin {"setTopic", "setName", "tail"}
      /\ reqs[j].reply \notin {"claimed", "unclaimed"}

\* A claim that arrived after the closing notice of an earlier close, while
\* the deletion was pending, and was answered as claimed.
ClaimedDuringGrace ==
  \E i, j \in DOMAIN reqs :
    /\ i < j
    /\ CloseEntered(i)
    /\ reqs[i].pc = "done"
    /\ reqs[j].afterOthers
    /\ reqs[j].kind \in {"claim", "claim_button"}
    /\ reqs[j].reply = "claimed"
    /\ parseTopic(channel.topic).claimed = reqs[j].actor


\* An authorized close request was accepted, or the auto-close timer fired
\* on the existing channel.
CloseAccepted == \E i \in DOMAIN reqs : CloseEntered(i)

\* The deletion done for request i came after the closing notice of that
\* request was attempted and at least the grace delay later.
DeletedAfterNotice ==
  \A d \in 1..Len(events) :
    events[d].ev = "deleted" =>
      \E n \in 1..(d - 1) :
        /\ events[n].ev \in {"notice", "notice_failed"}
        /\ events[n].req = events[d].req
        /\ events[d].at >= events[n].at + GraceMs

\* C20: after an authorized close request (button, modal with reason,
\* /close, or the fired auto-close timer) on an existing ticket channel the
\* channel is eventually deleted, and a deletion never comes before the
\* closing notice was attempted and the grace delay has passed.
C20_CloseRemovesTicketAsClaimed ==
  /\ [] DeletedAfterNotice
  /\ CloseAccepted ~> ~ channel.exists

C21_GoneChannelIsNoOp ==
  [][\A t \in timers :
       (TimerFire(t) /\ ~ channel.exists)
         => UNCHANGED <<channel, creation, reqs, events, cfgVars, premVars, store>>]_vars

\* The auto-close timer has fired after the deletion: it is spent, the
\* channel is gone and no auto-close was started.
C21_Witness ==
  /\ ~ channel.exists
  /\ timers = {}
  /\ now >= AutoCloseTimer.due
  /\ \E e \in 1..Len(events) : events[e].ev = "deleted"
  /\ \A i \in DOMAIN reqs : reqs[i].kind # "auto_close"

\* C22: stored auto-close minutes stay in range: after any sequence of
\* ?autoclose commands and auto-close modal submissions, the stored
\* features.autoCloseMinutes of every guild is absent or an integer in
\* 0..1440.
C22_StoredMinutesInRangeAsClaimed ==
  \A g \in Guilds :
    (IsDefined(PREMIUM_GUILDS[g].features)
       /\ IsDefined(PREMIUM_GUILDS[g].features[1].autoCloseMinutes))
      => PREMIUM_GUILDS[g].features[1].autoCloseMinutes[1] \in 0..1440

\* The branding, the features and the ticketPings entries of a stored
\* record, absent objects read as objects without keys.
BrandingOf(raw) == IF IsDefined(raw.branding) THEN raw.branding[1] ELSE NoBranding
FeaturesOf(raw) == IF IsDefined(raw.features) THEN raw.features[1] ELSE NoFeatures
PingsOf(features) ==
  IF IsDefined(features.ticketPings) THEN features.ticketPings[1]
  ELSE [t \in PingTypes |-> Undefined]

\* Everything the patch does not name is the same before and after the
\* call for guild g.
OnlyNamedChanged(g, patch) ==
  LET before == PREMIUM_GUILDS[g]
      after == PREMIUM_GUILDS'[g]
  IN /\ \A k \in BrandKeys :
          ~ IsDefined(BrandingOf(patch)[k]) => BrandingOf(after)[k] = BrandingOf(before)[k]
     /\ \A k \in FeatureKeys \ {"ticketPings"} :
          ~ IsDefined(FeaturesOf(patch)[k]) => FeaturesOf(after)[k] = FeaturesOf(before)[k]
     /\ \A t \in PingTypes :
          ~ IsDefined(PingsOf(FeaturesOf(patch))[t])
            => PingsOf(FeaturesOf(after))[t] = PingsOf(FeaturesOf(before))[t]
     /\ IsTrue(after.isPremium) = IsTrue(before.isPremium)
     /\ after.plan = before.plan
     /\ after.activatedAt = before.activatedAt
     /\ after.expiresAt = before.expiresAt
     /\ \A h \in Guilds \ {g} : PREMIUM_GUILDS'[h] = PREMIUM_GUILDS[h]

\* C23: savePremiumState changes only what the patch names: every other
\* branding key, every other feature key, the sibling entries of a nested
\* key such as features.ticketPings.support, isPremium, plan, activatedAt,
\* expiresAt and the state of every other guild are unchanged.
C23_OnlyNamedKeysChangeAsClaimed ==
  [][\A g \in Guilds, patch \in MergePatches :
       SavePremiumStateCalled(g, patch) => OnlyNamedChanged(g, patch)]_vars

ValidAccent(o) == ~ IsDefined(o) \/ o[1] = Null \/ isValidHexColor(o[1])
ValidIconUrl(o) == ~ IsDefined(o) \/ o[1] = Null \/ looksLikeUrl(o[1])

\* C24: branding is always valid: after any sequence of branding writes by
\* ?brandicon, ?accent, the premium branding modal and the dashboard form,
\* the stored accent of every guild is absent, null or a 6-hex-digit
\* color, and the stored icon URL is absent, null or an http/https URL.
C24_BrandingValidAsClaimed ==
  \A g \in Guilds :
    /\ ValidAccent(BrandingOf(PREMIUM_GUILDS[g]).accent)
    /\ ValidIconUrl(BrandingOf(PREMIUM_GUILDS[g]).iconUrl)

\* C25: dashboard writes are admin-only: a POST to /server/:guildId/save or
\* /server/:guildId/branding in the session of a user who does not hold
\* Manage Server on the guild (or for a guild the filter excludes) changes
\* neither the guild's configuration nor its premium record.
C25_DashboardWritesAdminOnlyAsClaimed ==
  [][\A u \in DashUsers, g \in Guilds :
       ~ MayEditGuild(u, g)
         => /\ \A body \in BrandingBodies :
                 DashboardBrandingBy(u, g, body) => PREMIUM_GUILDS'[g] = PREMIUM_GUILDS[g]
            /\ \A patch \in DashboardSavePatches :
                 DashboardSaveBy(u, g, patch) => GUILD_CONFIGS'[g] = GUILD_CONFIGS[g]]_vars

\* C26: the dashboard save follows the saveGuildConfig contract: after a
\* POST /server/:guildId/save by a user who manages the guild,
\* getGuildConfig(guildId) is what saveGuildConfig(guildId, patch) yields
\* for the same patch.
C26_DashboardSaveAsClaimed ==
  [][\A u \in DashUsers, g \in Guilds, patch \in DashboardSavePatches :
       (MayEditGuild(u, g) /\ DashboardSaveBy(u, g, patch))
         => getGuildConfigOf(GUILD_CONFIGS'[g])
              = getGuildConfigOf(NextStoredConfig(GUILD_CONFIGS[g], patch))]_vars

\* The ids an overwrite list gives the permission to.
Holders(overwrites, perm) ==
  {overwrites[i].id : i \in {j \in DOMAIN overwrites : overwrites[j].perm = perm}}

\* The roles configured for a ticket type.
ConfiguredRoles(type, cfg) ==
  IF type = "Support"
  THEN SeqToSet(cfg.supportRoles[1]) \cup SeqToSet(cfg.adminRoles[1])
  ELSE SeqToSet(cfg.mmRoles[1]) \cup SeqToSet(cfg.supportRoles[1])
         \cup SeqToSet(cfg.adminRoles[1])

\* C27: a created ticket channel denies view to the everyone-role and
\* grants view/send/history to exactly the opener and every role that is
\* both in the lists of the ticket type and present in the guild; a
\* configured role absent from the guild is not among the overwrites.
C27_TicketChannelAccess ==
  channel.exists
    => /\ Holders(channel.overwrites, "deny_view") = {TicketGuild}
       /\ Holders(channel.overwrites, "allow_base")
            = {creation.user} \cup (ConfiguredRoles(creation.type, creation.cfg) \cap GuildRoles)
       /\ \A i \in DOMAIN channel.overwrites :
            channel.overwrites[i].perm \in {"deny_view", "allow_base"}

\* A support ticket was created in a guild whose supportRoles name the
\* deleted role R9: the channel exists without an overwrite for R9 and
\* without one for the trade role R1.
C27_Witness ==
  /\ channel.exists
  /\ creation.type = "Support"
  /\ "R9" \in ConfiguredRoles(creation.type, creation.cfg)
  /\ Holders(channel.overwrites, "allow_base") = {creation.user, "R2", "R3"}

\* C28: opened is immutable: once the ticket of user U is created, the
\* opened value parsed from the channel topic is U for as long as the
\* channel exists, whatever claims, unclaims and closes are made.
C28_OpenedImmutableAsClaimed ==
  (channel.exists /\ creation.pc = "done" /\ creation.reply = "created")
    => parseTopic(channel.topic).opened = creation.user

\* C29: for a given ticket, rater and kind the first rate interaction is
\* accepted and a later identical one is rejected: an interaction is
\* accepted exactly when no earlier interaction named the same ticket,
\* rater and kind.
SameRating(a, b) == a.ticket = b.ticket /\ a.rater = b.rater /\ a.kind = b.kind

RECURSIVE ComponentsFrom(_, _)
ComponentsFrom(raw, i) ==
  IF i > Len(raw) THEN <<>>
  ELSE LET j == SkipDigits(raw, i)
           units == {u \in 1..Len(DurationUnits) :
                       /\ j + Len(DurationUnits[u]) - 1 <= Len(raw)
                       /\ SubSeq(raw, j, j + Len(DurationUnits[u]) - 1) = DurationUnits[u]}
           first == CHOOSE u \in units : \A v \in units : u <= v
       IN IF j = i \/ units = {} THEN <<>>
          ELSE <<DecimalValue(SubSeq(raw, i, j - 1)) * UnitSeconds(DurationUnits[first])>>
                 \o ComponentsFrom(raw, j + Len(DurationUnits[first]))

ComponentSeconds(raw) ==
  IF SumOf(ComponentsFrom(raw, 1)) > MaxDurationSeconds THEN MaxDurationSeconds
  ELSE SumOf(ComponentsFrom(raw, 1))

C31_CompoundDurationsAddUpAsClaimed ==
  [][\A key \in KeyNames, planArg \in DurationArgs :
       (Len(ComponentsFrom(planArg, 1)) >= 2 /\ PremiumGenArg(key, planArg))
         => /\ IsDefined(PREMIUM_KEYS'[key])
            /\ PREMIUM_KEYS'[key][1].durationMs = Some(ComponentSeconds(planArg) * 1000)]_vars

\* C32: whenever a claim succeeds, through the claim button or /claim, in a
\* guild that is premium with autoTagClaims on, the channel name afterwards
\* starts with exactly one claimed- prefix.
AutoTagOn ==
  LET view == GetPremiumState(PREMIUM_GUILDS, diskPremiumGuilds, DISK_FULL, TicketGuild).view
  IN view.isPremium /\ view.features.autoTagClaims

OneClaimedPrefix(name) ==
  /\ Len(name) > 1
  /\ name[1] = "claimed"
  /\ name[2] # "claimed"

ClaimSucceeds(i) ==
  /\ reqs[i].kind \in {"claim", "claim_button"}
  /\ reqs[i].pc # "done"
  /\ reqs'[i].pc = "done"
  /\ reqs'[i].reply = "claimed"

C32_ClaimAutoTagAsClaimed ==
  [][\A i \in DOMAIN reqs :
       (ClaimSucceeds(i) /\ AutoTagOn /\ channel'.exists)
         => OneClaimedPrefix(channel'.name)]_vars

\* C33: after every successful /unclaim the channel name does not start
\* with claimed-, whatever the premium status and the autoTagClaims
\* setting are at the time of the unclaim.
UnclaimSucceeds(i) ==
  /\ reqs[i].kind = "unclaim"
  /\ reqs[i].pc # "done"
  /\ reqs'[i].pc = "done"
  /\ reqs'[i].reply = "unclaimed"

C33_UnclaimReversesTagAsClaimed ==
  [][\A i \in DOMAIN reqs :
       (UnclaimSucceeds(i) /\ channel'.exists) => channel'.name[1] # "claimed"]_vars

\* C34: parseTopic(makeTopic(o, c)) returns opened = o and claimed = c for
\* every opener id o and every claimer c that is an id or none, and
\* opened = null (not the text "null") for an absent opener: every topic
\* a handler writes with makeTopic parses back to the values it was made of.
C34_TopicRoundTripAsClaimed ==
  [][/\ (CreateTopicDone /\ channel.exists)
          => parseTopic(channel'.topic) = [opened |-> creation.user, claimed |-> Null]
     /\ \A i \in DOMAIN reqs :
          (ClaimButtonTopicDone(i) /\ channel.exists)
            => parseTopic(channel'.topic)
                 = [opened |-> reqs[i].opened, claimed |-> reqs[i].actor]]_vars

\* C35: a redemption never reduces an entitlement: a guild that is premium
\* with no expiresAt before a key is redeemed is still premium without an
\* expiry after the redemption.
NonExpiring(s) == s.isPremium = Some(TRUE) /\ ~ IsDefined(s.expiresAt)

C35_RedeemKeepsLifetimeAsClaimed ==
  [][\A g \in Guilds, key \in KeyNames :
       (PremiumRedeem(g, key, TRUE) /\ premOp'.reply = "activated"
          /\ NonExpiring(PREMIUM_GUILDS[g]))
         => NonExpiring(PREMIUM_GUILDS'[g])]_vars

\* C36: one close per ticket: over all interleavings of close requests at
\* most one closed log embed and at most one closing notice are sent and
\* at most one deletion is scheduled.
EventCount(ev) == Cardinality({i \in DOMAIN events : events[i].ev = ev})

DeletionsScheduled ==
  Cardinality({i \in DOMAIN reqs : reqs[i].pc = "done" /\ reqs[i].reply = "closing"})

C37_SetupAuthorizedAtMutationAsClaimed ==
  [][\A a \in SetupActors, o \in panels :
       (/\ GUILD_CONFIGS' # GUILD_CONFIGS
        /\ \/ \E flag \in SetupFlags : SetupToggleBy(a, o, flag)
           \/ SetupPickChannel(a, o, "logChannelId", "L1")
           \/ \E field \in {"adminRoles", "supportRoles"}, values \in RolePicks :
                SetupPickRoles(a, o, field, values))
         => canUseSetup(a)]_vars

\* C38: whenever no config-save timer is pending, no asynchronous config
\* write is in flight and no write has failed, the durable guildConfigs
\* document equals the in-memory GUILD_CONFIGS.
NoWriteFailed == \A k \in 1..Len(cfgLog) : cfgLog[k].ev # "failed"

C38_DurableConvergesAsClaimed ==
  (~ IsDefined(cfgSaveTimer) /\ cfgWrites = <<>> /\ NoWriteFailed /\ ~ DISK_FULL)
    => diskGuildConfigs = GUILD_CONFIGS

\* C39: redemption is consistent across a restart: in the durable
\* documents, the key is marked used by a guild exactly when the extension
\* it gave is present in that guild's premium state.
KeyDurablyUsedBy(key, g) ==
  /\ IsDefined(diskPremiumKeys[key])
  /\ diskPremiumKeys[key][1].used
  /\ diskPremiumKeys[key][1].usedByGuildId = Some(g)

ExtensionDurable(g) == IsDefined(diskPremiumGuilds[g].expiresAt)

C39_RedeemConsistentAcrossRestartAsClaimed ==
  \A g \in Guilds : KeyDurablyUsedBy("K1", g) <=> ExtensionDurable(g)

\* C40: ticket creation depends only on the ticket type's own
\* configuration: a request in a guild where the type is enabled and its
\* category exists and is a category-type channel is never rejected because
\* of the log settings.
TypeConfigured(cfg, type) ==
  /\ ~ FeatureDisabled(cfg, type)
  /\ Validate(IF type = "Support" THEN cfg.supportCategoryId ELSE cfg.mmCategoryId,
              "category") = "ok"

C40_CreationIgnoresLogSettingsAsClaimed ==
  [][(CreateEnsure /\ TypeConfigured(getGuildConfig(TicketGuild), creation.type))
       => creation'.pc = "create"]_vars

====
